---- MODULE Spec2Model ----
(***************************************************************************)
(* Verification model of the sales-manager-system:                         *)
(*   - utils/decorators.py   : QueryCache and the operation wrappers       *)
(*   - utils/query_builder.py: SQLQueryBuilder and QueryBuilderDirector    *)
(*   - utils/analysis_strategies.py, utils/model_factory.py, models/       *)
(*   - database/connection.py: DatabaseConnection                          *)
(* Python strings are modelled as sequences of tokens, so that formatting  *)
(* (f-strings, str.join) is concatenation and can be compared.             *)
(***************************************************************************)
EXTENDS Integers, Sequences, FiniteSets, TLC

VARIABLES
    \* QueryCache (decorators.py:20-23)
    cache,          \* self._cache: key -> value
    access_order,   \* self._access_order: list of keys, least recent first
    max_size,       \* self._max_size
    \* observation of the last QueryCache call (CacheSpec)
    cop,            \* [op, key, value, ret, exc, evicted]
    last_use,       \* key -> number of the QueryCache call that last used it
    nops,           \* number of QueryCache calls made so far
    \* a wrapped operation and its calls (DecorSpec)
    config,         \* [stack, max_retries]: the decorators applied to the operation
    last,           \* the last call of the wrapped operation and what it did
    prev,           \* summary of the call before it
    log_level,      \* effective level of the module's logger
    \* SQLQueryBuilder (BuilderSpec)
    builder,        \* the builder's fields
    built,          \* what the last call returned or raised, when it was build()
    added,          \* [select, table]: was a select field added, a table set,
                    \* since construction or the last reset
    ncalls,         \* number of builder calls made so far
    fresh,          \* the fields of a newly constructed builder that was given
                    \* the calls made since the last reset()
    was_reset,      \* reset() was called on a builder that held a clause
    preset,         \* the QueryBuilderDirector call that was the last call, with
                    \* the builder's fields before it
    \* analysis strategies (StrategySpec)
    data,           \* the table given to the strategies: [columns, rows]
    scall,          \* the last analyze or compare_strategies call and its outcome
    \* ModelFactoryRegistry (FactorySpec)
    factories,      \* ModelFactoryRegistry._factories: model type -> factory class
    fcall,          \* the last registry call and its outcome
    registrations,  \* the register_factory calls made so far: <<type, class>>
    \* entity construction from a DataFrame (EntitySpec)
    ecall,          \* the last from_dataframe call and the entity it returned
    \* DatabaseConnection (ConnectionSpec)
    class_instance, \* DatabaseConnection._instance, the class attribute: <<>> for
                    \* None, else <<number of the object>>
    objects,        \* the DatabaseConnection objects created: their own attributes
    dcall,          \* the last DatabaseConnection() or close() call and its outcome
    inits,          \* number of _initialize() runs so far
    closed,         \* close() was called
    nconn,          \* number of DatabaseConnection calls made so far
    \* threads calling the shared QueryCache (RaceSpec)
    threads,        \* thread -> the frame of its QueryCache call: the next
                    \* step, the arguments, the local oldest_key, the outcome
    raced,          \* a thread took a step while another was inside a call
    \* the age of the cached entries (TtlSpec)
    clock,          \* seconds elapsed since the process started
    stored_at       \* key -> the clock when the wrapper last stored it

cacheVars == <<cache, access_order, max_size>>
cacheObs == <<cop, last_use, nops>>
decorVars == <<config, last, prev, log_level>>
builderVars == <<builder, built, added, ncalls, fresh, was_reset, preset>>
raceVars == <<threads, raced>>
timeVars == <<clock, stored_at>>
utilVars == <<cacheVars, cacheObs, decorVars, builderVars, raceVars, timeVars>>
strategyVars == <<data, scall>>
factoryVars == <<factories, fcall, registrations>>
entityVars == <<ecall>>
connectionVars == <<class_instance, objects, dcall, inits, closed, nconn>>
patternVars == <<strategyVars, factoryVars, entityVars, connectionVars>>
vars == <<cache, access_order, max_size, cop, last_use, nops, config, last, prev, log_level,
         builder, built, added, ncalls, fresh, was_reset, preset,
         data, scall, factories, fcall, registrations, ecall,
         class_instance, objects, dcall, inits, closed, nconn, threads, raced,
         clock, stored_at>>

----------------------------------------------------------------------------
(* Bounds of the model *)

MaxCacheSize == 2       \* largest max_size a QueryCache is constructed with
MaxCacheOps == 5        \* QueryCache calls explored by CacheSpec
MaxParams == 2          \* most parameters of an operation called in LogSpec
MaxBuilderCalls == 6    \* builder calls explored by BuilderSpec
MaxRetries == 2         \* largest max_retries given to retry_decorator
GlobalCacheSize == 2    \* max_size of _query_cache, scaled down from the default
                        \* 100 so that the model's few keys can fill it
MaxRows == 2            \* most rows of a table given to a strategy
MaxStrategies == 2      \* longest list given to compare_strategies
MaxRaceCalls == 3       \* get and set calls the two threads make in RaceSpec
MaxClock == 3           \* seconds that pass in TtlSpec
MaxQuantityRows == 5    \* most rows of a table of quantities
MaxRegistrations == 2   \* register_factory calls explored by FactorySpec
MaxConnectionCalls == 5 \* DatabaseConnection() and close() calls explored by ConnectionSpec

----------------------------------------------------------------------------
(* Python values and strings *)

None == "None"

\* sep.join(parts), parts a sequence of token sequences
RECURSIVE Join(_, _)
Join(sep, parts) ==
    IF parts = <<>> THEN <<>>
    ELSE IF Len(parts) = 1 THEN parts[1]
    ELSE parts[1] \o sep \o Join(sep, Tail(parts))

\* key in list
InList(list, key) == \E i \in 1..Len(list) : list[i] = key

\* list.remove(key): drops the first occurrence of key
RECURSIVE ListRemove(_, _)
ListRemove(list, key) ==
    IF list = <<>> THEN <<>>
    ELSE IF Head(list) = key THEN Tail(list)
    ELSE <<Head(list)>> \o ListRemove(Tail(list), key)

\* an empty dict
EmptyDict == [k \in {} |-> None]

\* d with d[key] = value
DictPut(d, key, value) == [k \in DOMAIN d \cup {key} |-> IF k = key THEN value ELSE d[k]]

\* del d[key]
DictDel(d, key) == [k \in DOMAIN d \ {key} |-> d[k]]

----------------------------------------------------------------------------
(* Calls of a wrapped operation and the cache keys made from them *)

\* A call is [func, args, kwargs]: the operation's __name__, the positional
\* values and the keyword arguments as <<name, value>> pairs in the order
\* they were passed.  A value is the token its repr() prints.
\* The wrapped operations: expensive_function(x) returns x * 2
\* (tests/test_design_patterns.py:312-316); fetch_optional returns None;
\* connect (LogSpec) takes credentials and returns True.
Calls ==
    { [func |-> "expensive_function", args |-> <<"5">>,  kwargs |-> <<>>],
      [func |-> "expensive_function", args |-> <<"10">>, kwargs |-> <<>>],
      [func |-> "expensive_function", args |-> <<>>,     kwargs |-> << <<"x", "5">> >>],
      [func |-> "fetch_optional",     args |-> <<"5">>,  kwargs |-> <<>>] }

\* what the operation returns when it succeeds
OpValue(call) ==
    IF call.func = "fetch_optional" THEN None
    ELSE IF call.func = "connect" THEN "True"
    ELSE LET x == IF call.args # <<>> THEN call.args[1] ELSE call.kwargs[1][2]
         IN  IF x = "5" THEN "10" ELSE "20"

\* str(args) of a tuple: "(5,)" for one element, "(5, 10)" for more
StrArgs(args) ==
    IF Len(args) = 0 THEN <<"()">>
    ELSE IF Len(args) = 1 THEN <<"(", args[1], ",)">>
    ELSE <<"(">> \o Join(<<", ">>, [i \in 1..Len(args) |-> <<args[i]>>]) \o <<")">>

\* the parameter names of the model, in the order sorted() gives them
SortedNames == <<"API_SECRET", "Password", "db_password", "user", "x">>

HasKw(kwargs, name) == \E i \in 1..Len(kwargs) : kwargs[i][1] = name
KwValue(kwargs, name) == kwargs[CHOOSE i \in 1..Len(kwargs) : kwargs[i][1] = name][2]

\* sorted(kwargs.items())
SortedItems(kwargs) ==
    LET names == SelectSeq(SortedNames, LAMBDA n : HasKw(kwargs, n))
    IN  [i \in 1..Len(names) |-> <<names[i], KwValue(kwargs, names[i])>>]

\* str() of a list of (name, value) pairs
StrItems(items) ==
    <<"[">> \o Join(<<", ">>, [i \in 1..Len(items) |->
                       <<"('", items[i][1], "', ", items[i][2], ")">>]) \o <<"]">>

\* str() of a dict, in insertion order
StrDict(items) ==
    <<"{">> \o Join(<<", ">>, [i \in 1..Len(items) |->
                       <<"'", items[i][1], "': ", items[i][2]>>]) \o <<"}">>

\* cache_key = f"{func.__name__}:{str(args)}:{str(sorted(kwargs.items()))}"
CacheKey(call) ==
    <<call.func, ":">> \o StrArgs(call.args) \o <<":">>
        \o StrItems(SortedItems(call.kwargs))

Keys == { CacheKey(c) : c \in Calls }

\* values a caller stores with QueryCache.set
StoredValues == {None, "10", "20"}

----------------------------------------------------------------------------
(* QueryCache: the methods as functions of the object's fields.  Each      *)
(* returns the new fields, the returned value and the exception raised.    *)

NoKey == <<>>

\* self._access_order.remove(key); self._access_order.append(key)
MoveToEnd_skipped(order, key) == order

MoveToEnd(order, key) == Append(ListRemove(order, key), key)

\* len(self._cache) >= self._max_size
CacheFull_off_by_one(c, size) == Cardinality(DOMAIN c) > size

CacheFull(c, size) == Cardinality(DOMAIN c) >= size

QueryCache_get(c, order, key) ==
    IF key \in DOMAIN c
    THEN IF InList(order, key)
         THEN [cache |-> c, order |-> MoveToEnd(order, key),
               ret |-> c[key], exc |-> "none", evicted |-> NoKey]
         ELSE [cache |-> c, order |-> order,
               ret |-> None, exc |-> "ValueError", evicted |-> NoKey]
    ELSE [cache |-> c, order |-> order, ret |-> None, exc |-> "none", evicted |-> NoKey]

QueryCache_set(c, order, size, key, value) ==
    IF key \in DOMAIN c
    THEN \* update existing: the store is written before the list is touched
         IF InList(order, key)
         THEN [cache |-> DictPut(c, key, value),
               order |-> MoveToEnd(order, key),
               ret |-> None, exc |-> "none", evicted |-> NoKey]
         ELSE [cache |-> DictPut(c, key, value), order |-> order,
               ret |-> None, exc |-> "ValueError", evicted |-> NoKey]
    ELSE IF CacheFull(c, size)
    THEN \* remove least recently used, then add
         IF order = <<>>
         THEN [cache |-> c, order |-> order,
               ret |-> None, exc |-> "IndexError", evicted |-> NoKey]
         ELSE LET oldest_key == Head(order)
              IN  IF oldest_key \in DOMAIN c
                  THEN [cache |-> DictPut(DictDel(c, oldest_key), key, value),
                        order |-> Append(Tail(order), key),
                        ret |-> None, exc |-> "none", evicted |-> oldest_key]
                  ELSE [cache |-> c, order |-> Tail(order),
                        ret |-> None, exc |-> "KeyError", evicted |-> NoKey]
    ELSE [cache |-> DictPut(c, key, value), order |-> Append(order, key),
          ret |-> None, exc |-> "none", evicted |-> NoKey]

\* a clear that empties the store and keeps the list
QueryCache_clear_store_only(c, order) ==
    [cache |-> EmptyDict, order |-> order, ret |-> None, exc |-> "none", evicted |-> NoKey]

QueryCache_clear(c, order) ==
    [cache |-> EmptyDict, order |-> <<>>, ret |-> None, exc |-> "none", evicted |-> NoKey]

----------------------------------------------------------------------------
(* SQLQueryBuilder: fields and methods.  A clause string is a sequence of  *)
(* tokens; the empty string is the empty sequence.  _limit_value is <<>>   *)
(* for None and <<n>> for the integer n.                                   *)

\* SQLQueryBuilder.reset: the fields after construction or reset
EmptyBuilder ==
    [select_fields |-> <<>>, from_table |-> <<>>, joins |-> <<>>,
     where_conditions |-> <<>>, group_by_fields |-> <<>>,
     having_conditions |-> <<>>, order_by_fields |-> <<>>, limit_value |-> <<>>]

NoBuild == [ok |-> FALSE, text |-> <<>>, error |-> <<>>]
NothingAdded == [select |-> FALSE, table |-> FALSE]
NoPreset == [name |-> "none"]

\* the threads of the model, and a thread that is in no QueryCache call
ThreadIds == {1, 2}

IdleFrame == [pc |-> "idle", key |-> <<>>, value |-> None, oldest_key |-> <<>>,
              ret |-> None, exc |-> "none"]

RaceIdle ==
    /\ threads = [t \in ThreadIds |-> IdleFrame]
    /\ raced = FALSE

\* no time has passed and the wrapper has stored nothing
TimeIdle ==
    /\ clock = 0
    /\ stored_at = [k \in {} |-> 0]

\* the builder variables while no builder is in use
BuilderIdle ==
    /\ builder = EmptyBuilder
    /\ built = NoBuild
    /\ added = NothingAdded
    /\ ncalls = 0
    /\ fresh = EmptyBuilder
    /\ was_reset = FALSE
    /\ preset = NoPreset

----------------------------------------------------------------------------
(* The state of the design-pattern classes before they are used *)

NoCall == [call |-> "none"]

EmptyTable == [columns |-> {}, rows |-> <<>>]

\* the strategy variables while no strategy is in use
StrategyIdle ==
    /\ data = EmptyTable
    /\ scall = NoCall

\* ModelFactoryRegistry._factories as the class statement leaves it
DefaultFactories ==
    [t \in {"category", "product", "sale", "city", "country", "customer", "employee"} |->
        CASE t = "category" -> "CategoryFactory"
          [] t = "product" -> "ProductFactory"
          [] t = "sale" -> "SaleFactory"
          [] OTHER -> "ModelFactory"]

\* the registry while no caller uses it
FactoryIdle ==
    /\ factories = DefaultFactories
    /\ fcall = NoCall
    /\ registrations = <<>>

EntityIdle == ecall = NoCall

\* DatabaseConnection as the class statement leaves it: no instance
ConnectionIdle ==
    /\ class_instance = <<>>
    /\ objects = <<>>
    /\ dcall = NoCall
    /\ inits = 0
    /\ closed = FALSE
    /\ nconn = 0

----------------------------------------------------------------------------
(* CacheSpec: a QueryCache driven directly by get, set and clear *)

NoOp == [op |-> "init", key |-> NoKey, value |-> None, ret |-> None,
         exc |-> "none", evicted |-> NoKey]

NoConfig == [stack |-> "none", max_retries |-> 0]

CacheInit ==
    /\ BuilderIdle
    /\ RaceIdle
    /\ TimeIdle
    /\ StrategyIdle /\ FactoryIdle /\ EntityIdle /\ ConnectionIdle
    /\ config = NoConfig
    /\ last = NoCall
    /\ prev = NoCall
    /\ log_level = "INFO"
    /\ cache = EmptyDict
    /\ access_order = <<>>
    /\ max_size \in 0..MaxCacheSize
    /\ cop = NoOp
    /\ last_use = EmptyDict
    /\ nops = 0

Get(key) ==
    /\ nops < MaxCacheOps
    /\ LET r == QueryCache_get(cache, access_order, key)
       IN  /\ cache' = r.cache
           /\ access_order' = r.order
           /\ cop' = [op |-> "get", key |-> key, value |-> None, ret |-> r.ret,
                      exc |-> r.exc, evicted |-> r.evicted]
           /\ last_use' = IF key \in DOMAIN cache
                          THEN DictPut(last_use, key, nops + 1) ELSE last_use
    /\ nops' = nops + 1
    /\ UNCHANGED <<max_size, decorVars, builderVars, raceVars, timeVars, patternVars>>

Set(key, value) ==
    /\ nops < MaxCacheOps
    /\ LET r == QueryCache_set(cache, access_order, max_size, key, value)
       IN  /\ cache' = r.cache
           /\ access_order' = r.order
           /\ cop' = [op |-> "set", key |-> key, value |-> value, ret |-> r.ret,
                      exc |-> r.exc, evicted |-> r.evicted]
           /\ last_use' = IF r.exc = "none"
                          THEN DictPut(last_use, key, nops + 1) ELSE last_use
    /\ nops' = nops + 1
    /\ UNCHANGED <<max_size, decorVars, builderVars, raceVars, timeVars, patternVars>>

Clear ==
    /\ nops < MaxCacheOps
    /\ LET r == QueryCache_clear(cache, access_order)
       IN  /\ cache' = r.cache
           /\ access_order' = r.order
           /\ cop' = [op |-> "clear", key |-> NoKey, value |-> None, ret |-> r.ret,
                      exc |-> r.exc, evicted |-> r.evicted]
    /\ nops' = nops + 1
    /\ UNCHANGED <<max_size, last_use, decorVars, builderVars, raceVars, timeVars, patternVars>>

CacheNext ==
    \/ \E key \in Keys : Get(key)
    \/ \E key \in Keys, value \in StoredValues : Set(key, value)
    \/ Clear

CacheSpec == CacheInit /\ [][CacheNext]_vars

----------------------------------------------------------------------------
(* Claims about QueryCache, checked under CacheSpec *)

\* the stored key whose last use (get hit, or set) is the oldest
IsLeastRecentlyUsed(victim) ==
    /\ victim \in DOMAIN cache
    /\ \A k \in DOMAIN cache : last_use[victim] <= last_use[k]

\* C2: when set inserts a new key into a cache that already holds max_size
\* entries, exactly one entry leaves the cache, it is the least recently used
\* one (a get hit and a set both count as a use), and every other entry is
\* kept with its value.
C2_SetEvictsLeastRecentlyUsed ==
    [][ ( /\ cop'.op = "set"
          /\ cop'.exc = "none"
          /\ cop'.key \notin DOMAIN cache
          /\ Cardinality(DOMAIN cache) = max_size )
        => \E victim \in DOMAIN cache :
              /\ IsLeastRecentlyUsed(victim)
              /\ DOMAIN cache' = (DOMAIN cache \ {victim}) \cup {cop'.key}
              /\ cache'[cop'.key] = cop'.value
              /\ \A k \in DOMAIN cache \ {victim} : cache'[k] = cache[k] ]_vars

\* a set has just evicted an entry that an earlier get had not saved, while
\* another entry stayed in the cache
C2_Witness ==
    /\ cop.op = "set"
    /\ cop.exc = "none"
    /\ cop.evicted # NoKey
    /\ cop.evicted \notin DOMAIN cache
    /\ Cardinality(DOMAIN cache) = 2
    /\ \E k \in DOMAIN cache : k # cop.key /\ last_use[k] > last_use[cop.evicted]

\* C3: after any sequence of get, set and clear calls the number of stored
\* entries never exceeds max_size.
C3_SizeNeverExceedsMaxSize == Cardinality(DOMAIN cache) <= max_size

\* the cache is full right after a set that had to evict
C3_Witness ==
    /\ cop.op = "set"
    /\ cop.evicted # NoKey
    /\ max_size > 0
    /\ Cardinality(DOMAIN cache) = max_size

----------------------------------------------------------------------------
(* The operation wrappers.  A wrapper is a function of the result of the   *)
(* function it wraps: [outcome, invocations, log] where outcome is what    *)
(* the call returned or raised, invocations counts the calls made to the   *)
(* undecorated operation and log lists the logger calls in order.          *)

NoExc == [type |-> "none", msg |-> <<>>]
Return(value) == [kind |-> "return", value |-> value, exc |-> NoExc]
Raise(e) == [kind |-> "raise", value |-> None, exc |-> e]
LogRecord(level, text) == [level |-> level, text |-> text]

\* what one invocation of the undecorated operation can do: succeed, or raise
\* an exception derived from Exception
ConnectionFailure == [type |-> "ConnectionError", msg |-> <<"connection refused">>]
PreconditionFailure == [type |-> "ValueError", msg |-> <<"FROM table is required">>]
OpExceptions == {ConnectionFailure, PreconditionFailure}
Success == [type |-> "ok", msg |-> <<>>]
Behaviours == {Success} \cup OpExceptions

\* func(*args, **kwargs) of the undecorated operation behaving as b
Invoke(call, b) ==
    [outcome |-> IF b = Success THEN Return(OpValue(call)) ELSE Raise(b),
     invocations |-> 1,
     log |-> <<>>]

\* isinstance(e, ConnectionError)
IsConnectionError_never(e) == FALSE

IsConnectionError(e) == e.type = "ConnectionError"

\* error_handling_decorator.wrapper around one call of func
error_handling_decorator(fname, inner) ==
    IF inner.outcome.kind = "return" THEN inner
    ELSE LET e == inner.outcome.exc
         IN  IF IsConnectionError(e)
             THEN [inner EXCEPT
                     !.outcome = Raise([type |-> "RuntimeError",
                                        msg |-> <<"Failed to connect to database: ">> \o e.msg]),
                     !.log = @ \o <<LogRecord("ERROR",
                         <<"Database connection error in ", fname, ": ">> \o e.msg)>>]
             ELSE [inner EXCEPT
                     !.outcome = Raise([type |-> "RuntimeError",
                                        msg |-> <<"Database operation failed: ">> \o e.msg]),
                     !.log = @ \o <<LogRecord("ERROR",
                         <<"Unexpected error in ", fname, ": ">> \o e.msg)>>]

\* range(max_retries + 1), as the last attempt number
LastAttempt_one_short(max_retries) == max_retries - 1

LastAttempt(max_retries) == max_retries

\* the delay default of retry_decorator
RetryDelay == <<"1.0">>

\* the for loop of retry_decorator.wrapper from attempt on; inners[i] is the
\* result of the i-th call of func
RECURSIVE retry_loop(_, _, _, _, _, _)
retry_loop(max_retries, fname, inners, attempt, last_exception, acc) ==
    IF attempt > LastAttempt(max_retries)
    THEN [acc EXCEPT !.outcome = Raise(last_exception)]
    ELSE LET r == inners[attempt + 1]
             done == [outcome |-> r.outcome,
                      invocations |-> acc.invocations + r.invocations,
                      log |-> acc.log \o r.log]
         IN  IF r.outcome.kind = "return" THEN done
             ELSE retry_loop(max_retries, fname, inners, attempt + 1, r.outcome.exc,
                    [done EXCEPT !.log = @ \o
                        IF attempt < max_retries
                        THEN <<LogRecord("WARNING",
                                 <<"Attempt ", ToString(attempt + 1), " failed for ",
                                   fname, ": ">> \o r.outcome.exc.msg),
                               LogRecord("INFO",
                                 <<"Retrying in ">> \o RetryDelay \o <<" seconds...">>)>>
                        ELSE <<LogRecord("ERROR",
                                 <<"All ", ToString(max_retries + 1),
                                   " attempts failed for ", fname>>)>>])

retry_decorator(max_retries, fname, inners) ==
    retry_loop(max_retries, fname, inners, 0, NoExc,
               [outcome |-> Raise(NoExc), invocations |-> 0, log |-> <<>>])

\* a test that takes no cached_result for a hit
IsHit_never(cached_result) == FALSE

\* a test that takes every cached_result for a hit
IsHit_always(cached_result) == TRUE

\* cached_result is not None
IsHit(cached_result) == cached_result # None

\* caching_decorator.wrapper; inner is what func(*args, **kwargs) does when it
\* is called.  Also returns the fields of the global _query_cache.
caching_decorator(call, c, order, size, inner) ==
    LET cache_key == CacheKey(call)
        g == QueryCache_get(c, order, cache_key)
    IN  IF g.exc # "none"
        THEN [outcome |-> Raise([type |-> g.exc, msg |-> <<>>]), invocations |-> 0,
              log |-> <<>>, hit |-> FALSE, cache |-> g.cache, order |-> g.order]
        ELSE IF IsHit(g.ret)
        THEN [outcome |-> Return(g.ret), invocations |-> 0,
              log |-> <<LogRecord("INFO", <<"Cache hit for ", call.func>>)>>,
              hit |-> TRUE, cache |-> g.cache, order |-> g.order]
        ELSE LET miss == <<LogRecord("INFO",
                             <<"Cache miss for ", call.func, ", executing...">>)>>
             IN  IF inner.outcome.kind = "raise"
                 THEN [outcome |-> inner.outcome, invocations |-> inner.invocations,
                       log |-> miss \o inner.log,
                       hit |-> FALSE, cache |-> g.cache, order |-> g.order]
                 ELSE LET st == QueryCache_set(g.cache, g.order, size, cache_key,
                                               inner.outcome.value)
                      IN  IF st.exc # "none"
                          THEN [outcome |-> Raise([type |-> st.exc, msg |-> <<>>]),
                                invocations |-> inner.invocations,
                                log |-> miss \o inner.log,
                                hit |-> FALSE, cache |-> st.cache, order |-> st.order]
                          ELSE [outcome |-> inner.outcome,
                                invocations |-> inner.invocations,
                                log |-> miss \o inner.log \o
                                    <<LogRecord("INFO", <<"Result cached for ", call.func>>)>>,
                                hit |-> FALSE, cache |-> st.cache, order |-> st.order]

\* timing_decorator.wrapper: logs only when func returned (the results of
\* the model are not DataFrames, so no execution_time attribute is set)
timing_decorator(fname, inner) ==
    IF inner.outcome.kind = "return"
    THEN [inner EXCEPT !.log = @ \o
            <<LogRecord("INFO", <<fname, " executed in ", "<seconds>", " seconds">>)>>]
    ELSE inner

\* the spelling of the parameter names
Chars ==
    [n \in {"API_SECRET", "Password", "db_password", "user", "x"} |->
        CASE n = "API_SECRET"  -> <<"A","P","I","_","S","E","C","R","E","T">>
          [] n = "Password"    -> <<"P","a","s","s","w","o","r","d">>
          [] n = "db_password" -> <<"d","b","_","p","a","s","s","w","o","r","d">>
          [] n = "user"        -> <<"u","s","e","r">>
          [] n = "x"           -> <<"x">>]

\* str.lower() on one character
LowerChar(ch) ==
    CASE ch = "A" -> "a" [] ch = "C" -> "c" [] ch = "E" -> "e" [] ch = "I" -> "i"
      [] ch = "P" -> "p" [] ch = "R" -> "r" [] ch = "S" -> "s" [] ch = "T" -> "t"
      [] OTHER -> ch

Lower(chars) == [i \in 1..Len(chars) |-> LowerChar(chars[i])]

\* needle in haystack, for strings
Contains(haystack, needle) ==
    \E i \in 0..(Len(haystack) - Len(needle)) :
        SubSeq(haystack, i + 1, i + Len(needle)) = needle

\* 'password' not in k.lower() and 'secret' not in k.lower()
IsSensitive(name) ==
    \/ Contains(Lower(Chars[name]), <<"p","a","s","s","w","o","r","d">>)
    \/ Contains(Lower(Chars[name]), <<"s","e","c","r","e","t">>)

\* logging_decorator.wrapper
logging_decorator(call, inner) ==
    LET method_name == call.func
        \* hasattr(args[0], '__class__') holds of every object
        log_args == IF call.args # <<>> THEN Tail(call.args) ELSE call.args
        filtered_kwargs == SelectSeq(call.kwargs, LAMBDA kv : ~IsSensitive(kv[1]))
        before ==
            <<LogRecord("INFO", <<"Calling ", method_name>>)>>
            \o (IF log_args # <<>>
                THEN <<LogRecord("DEBUG", <<"Parameters: args=">> \o StrArgs(log_args))>>
                ELSE <<>>)
            \o (IF call.kwargs # <<>>
                THEN <<LogRecord("DEBUG",
                         <<"Keyword parameters: ">> \o StrDict(filtered_kwargs))>>
                ELSE <<>>)
        after ==
            IF inner.outcome.kind = "return"
            THEN <<LogRecord("INFO", <<method_name, " completed successfully">>)>>
            ELSE <<LogRecord("ERROR",
                     <<method_name, " failed with error: ">> \o inner.outcome.exc.msg)>>
    IN  [inner EXCEPT !.log = before \o @ \o after]

\* the composite with error handling applied outside the retry loop
database_operation_retry_innermost(call, max_retries, c, order, size, script) ==
    LET retried == retry_decorator(max_retries, call.func,
                       [i \in 1..Len(script) |-> Invoke(call, script[i])])
        handled == error_handling_decorator(call.func, retried)
        cached == caching_decorator(call, c, order, size, handled)
        timed == timing_decorator(call.func, cached)
    IN  logging_decorator(call, timed)

\* database_operation.decorator: error handling innermost, then retry,
\* caching, timing, and logging outermost; script[i] is what the i-th
\* invocation of the undecorated operation does
database_operation(call, max_retries, c, order, size, script) ==
    LET handled == [i \in 1..Len(script) |->
                       error_handling_decorator(call.func, Invoke(call, script[i]))]
        retried == retry_decorator(max_retries, call.func, handled)
        cached == caching_decorator(call, c, order, size, retried)
        timed == timing_decorator(call.func, cached)
    IN  logging_decorator(call, timed)

\* the records the logger writes at its effective level
LevelNo(level) ==
    CASE level = "DEBUG" -> 10 [] level = "INFO" -> 20
      [] level = "WARNING" -> 30 [] level = "ERROR" -> 40

Written(log, level) == SelectSeq(log, LAMBDA r : LevelNo(r.level) >= LevelNo(level))

----------------------------------------------------------------------------
(* DecorSpec: one operation, decorated once, called again and again.  The  *)
(* cache is the module-level _query_cache shared by all calls.            *)

Stacks == {"caching", "retry", "error_handling", "database_operation"}

\* what the successive invocations of one call do; the invocations after the
\* first success are never made, so they are not varied
Scripts(n) ==
    { sc \in [1..(n + 1) -> Behaviours] :
        \A i, j \in 1..(n + 1) : (i < j /\ sc[i] = Success) => sc[j] = Success }

DecorInit ==
    /\ BuilderIdle
    /\ RaceIdle
    /\ TimeIdle
    /\ StrategyIdle /\ FactoryIdle /\ EntityIdle /\ ConnectionIdle
    /\ cache = EmptyDict
    /\ access_order = <<>>
    /\ max_size = GlobalCacheSize
    /\ cop = NoOp
    /\ last_use = EmptyDict
    /\ nops = 0
    /\ config \in { cf \in [stack : Stacks, max_retries : 0..MaxRetries] :
                      cf.stack \in {"caching", "error_handling"} => cf.max_retries = 0 }
    /\ last = NoCall
    /\ prev = NoCall
    /\ log_level = "INFO"

Summary(l) ==
    IF l = NoCall THEN NoCall
    ELSE [call |-> l.call, outcome |-> l.outcome, invocations |-> l.invocations,
          hit |-> l.hit]

\* what is recorded of a call: r is the decorated function's result
Record(call, r) ==
    [call |-> call, outcome |-> r.outcome, invocations |-> r.invocations,
     hit |-> r.hit, log |-> r.log,
     cached_before |-> CacheKey(call) \in DOMAIN cache]

Finish(call, script, r) ==
    /\ last' = [Record(call, r) EXCEPT !.log = Written(@, log_level)]
                 @@ [attempts |-> SubSeq(script, 1, r.invocations)]
    /\ prev' = IF config.stack = "caching" THEN Summary(last) ELSE NoCall
    /\ cache' = r.cache
    /\ access_order' = r.order
    /\ UNCHANGED <<max_size, cacheObs, config, log_level, builderVars, raceVars, timeVars, patternVars>>

Uncached(r) == r @@ [hit |-> FALSE, cache |-> cache, order |-> access_order]

CallCached(call, script) ==
    /\ config.stack = "caching"
    /\ Finish(call, script,
              caching_decorator(call, cache, access_order, max_size,
                                Invoke(call, script[1])))

CallRetried(call, script) ==
    /\ config.stack = "retry"
    /\ Finish(call, script,
              Uncached(retry_decorator(config.max_retries, call.func,
                          [i \in 1..Len(script) |-> Invoke(call, script[i])])))

CallErrorHandled(call, script) ==
    /\ config.stack = "error_handling"
    /\ Finish(call, script,
              Uncached(error_handling_decorator(call.func, Invoke(call, script[1]))))

CallDatabaseOperation(call, script) ==
    /\ config.stack = "database_operation"
    /\ Finish(call, script,
              database_operation(call, config.max_retries, cache, access_order,
                                 max_size, script))

DecorNext ==
    \/ \E call \in Calls, script \in Scripts(0) : CallCached(call, script)
    \/ \E call \in Calls, script \in Scripts(config.max_retries) :
          CallRetried(call, script)
    \/ \E call \in Calls, script \in Scripts(0) : CallErrorHandled(call, script)
    \/ \E call \in Calls, script \in Scripts(config.max_retries) :
          CallDatabaseOperation(call, script)

DecorSpec == DecorInit /\ [][DecorNext]_vars

----------------------------------------------------------------------------
(* Claims about the wrappers, checked under DecorSpec *)

Called == last # NoCall
LastAttemptMade == last.attempts[Len(last.attempts)]

\* C1 (as stated): for a pure operation (here: one that returns its value
\* whenever it is invoked), two successive calls with identical arguments
\* invoke the operation exactly once between them and return the same value,
\* and a following call with arguments not seen before invokes it again.
C1_IdenticalCallsInvokeOnce ==
    ( /\ config.stack = "caching" /\ Called /\ prev # NoCall
      /\ \A i \in 1..Len(last.attempts) : last.attempts[i] = Success ) =>
        /\ (last.call = prev.call /\ prev.outcome.kind = "return") =>
              /\ prev.invocations + last.invocations = (IF prev.hit THEN 0 ELSE 1)
              /\ last.outcome = prev.outcome
        /\ (last.call # prev.call /\ ~last.cached_before) => last.invocations = 1

\* C4: retry_decorator(max_retries = n) invokes the operation until its first
\* success or until n + 1 attempts were made; a first success at attempt k is
\* returned after exactly k invocations, and when all n + 1 attempts fail the
\* failure of the last attempt is raised.
C4_RetryUntilSuccessOrExhausted ==
    (config.stack = "retry" /\ Called) =>
        LET n == config.max_retries
            a == last.attempts
        IN  /\ last.invocations = Len(a)
            /\ Len(a) >= 1
            /\ Len(a) <= n + 1
            /\ \A i \in 1..(Len(a) - 1) : a[i] # Success
            /\ LastAttemptMade = Success => last.outcome = Return(OpValue(last.call))
            /\ LastAttemptMade # Success =>
                  /\ Len(a) = n + 1
                  /\ last.outcome = Raise(a[n + 1])

\* two different failures, then success at the last permitted attempt
C4_Witness ==
    /\ config.stack = "retry"
    /\ config.max_retries = 2
    /\ Called
    /\ last.attempts = <<ConnectionFailure, PreconditionFailure, Success>>
    /\ last.outcome.kind = "return"

\* the RuntimeError message built from an exception of the operation
ConvertedMessage(e) ==
    (IF e.type = "ConnectionError" THEN <<"Failed to connect to database: ">>
     ELSE <<"Database operation failed: ">>) \o e.msg

\* C5: error_handling_decorator returns a successful result unchanged and
\* replaces every exception of the operation by a RuntimeError carrying the
\* original message, prefixed 'Failed to connect to database: ' for a
\* ConnectionError and 'Database operation failed: ' otherwise; nothing but
\* a RuntimeError is raised.
C5_ErrorsBecomeRuntimeError ==
    (config.stack = "error_handling" /\ Called) =>
        LET b == last.attempts[1]
        IN  /\ last.invocations = 1
            /\ b = Success => last.outcome = Return(OpValue(last.call))
            /\ b # Success =>
                  last.outcome = Raise([type |-> "RuntimeError", msg |-> ConvertedMessage(b)])
            /\ last.outcome.kind = "raise" => last.outcome.exc.type = "RuntimeError"

\* a ConnectionError was converted
C5_Witness ==
    /\ config.stack = "error_handling"
    /\ Called
    /\ last.attempts = <<ConnectionFailure>>
    /\ last.outcome.exc.msg = <<"Failed to connect to database: ", "connection refused">>

HasRecord(log, level, text) == \E i \in 1..Len(log) : log[i] = LogRecord(level, text)
IsRetryRecord(r) == r.text[1] \in {"Attempt ", "Retrying in ", "All "}

\* C6: database_operation nests logging(timing(caching(retry(error handling
\* (op))))): a cache hit returns the stored value without entering the retry
\* loop or invoking op; on a miss every failure of op is converted by error
\* handling before the retry loop sees it, op is retried up to max_retries
\* more times, and the cache is written only with a successful result.
C6_CompositeOrder ==
    [][ config.stack = "database_operation" =>
        LET l == last'
            key == CacheKey(l.call)
            n == config.max_retries
            a == l.attempts
            stored == key \in DOMAIN cache /\ cache[key] # None
        IN  /\ l.hit <=> stored
            /\ l.log[1] = LogRecord("INFO", <<"Calling ", l.call.func>>)
            /\ l.outcome.kind = "return" =>
                  /\ l.log[Len(l.log) - 1].text[2] = " executed in "
                  /\ l.log[Len(l.log)].text[2] = " completed successfully"
            /\ l.hit =>
                  /\ l.invocations = 0
                  /\ l.outcome = Return(cache[key])
                  /\ \A i \in 1..Len(l.log) : ~IsRetryRecord(l.log[i])
                  /\ cache' = cache
            /\ ~l.hit =>
                  /\ l.invocations = Len(a)
                  /\ Len(a) >= 1 /\ Len(a) <= n + 1
                  /\ \A i \in 1..(Len(a) - 1) : a[i] # Success
                  /\ \A i \in 1..Len(a) :
                        (a[i] # Success /\ i <= n) =>
                            HasRecord(l.log, "WARNING",
                                <<"Attempt ", ToString(i), " failed for ", l.call.func, ": ">>
                                    \o ConvertedMessage(a[i]))
                  /\ a[Len(a)] = Success =>
                        /\ l.outcome = Return(OpValue(l.call))
                        /\ key \in DOMAIN cache'
                        /\ cache'[key] = OpValue(l.call)
                  /\ a[Len(a)] # Success =>
                        /\ Len(a) = n + 1
                        /\ l.outcome = Raise([type |-> "RuntimeError",
                                              msg |-> ConvertedMessage(a[n + 1])])
                        /\ cache' = cache ]_vars

\* a miss whose first attempt failed and second succeeded, stored afterwards
C6_Witness ==
    /\ config.stack = "database_operation"
    /\ Called
    /\ ~last.hit
    /\ last.attempts = <<ConnectionFailure, Success>>
    /\ CacheKey(last.call) \in DOMAIN cache
    /\ cache[CacheKey(last.call)] = "10"

\* C7 (as stated): a precondition failure (a ValueError) raised by an
\* operation under retry_decorator or database_operation is never retried:
\* the operation is invoked exactly once for that call.
C7_PreconditionFailureNotRetried ==
    ( /\ config.stack \in {"retry", "database_operation"}
      /\ Called
      /\ last.attempts # <<>>
      /\ last.attempts[1] = PreconditionFailure )
    => last.invocations = 1

----------------------------------------------------------------------------
(* LogSpec: calls of an operation under logging_decorator, with the        *)
(* arguments split between positional and keyword, under either level the *)
(* application may have configured for the logger.                         *)

\* the value passed for each parameter, as repr() prints it
ArgValue ==
    [n \in {"API_SECRET", "Password", "db_password", "user", "x"} |->
        CASE n = "API_SECRET"  -> "'k-42'"
          [] n = "Password"    -> "'hunter2'"
          [] n = "db_password" -> "'s3cr3t'"
          [] n = "user"        -> "'admin'"
          [] n = "x"           -> "5"]

ParamNames == {"API_SECRET", "Password", "db_password", "user", "x"}

\* the parameter lists of the operations called: distinct names
Signatures ==
    UNION { { sig \in [1..m -> ParamNames] :
                \A i, j \in 1..m : i # j => sig[i] # sig[j] } : m \in 1..MaxParams }

\* the call that passes the first k parameters positionally, the rest by keyword
Bind(sig, k) ==
    [func |-> "connect",
     args |-> [i \in 1..k |-> ArgValue[sig[i]]],
     kwargs |-> [i \in 1..(Len(sig) - k) |-> <<sig[k + i], ArgValue[sig[k + i]]>>]]

LogInit ==
    /\ BuilderIdle
    /\ RaceIdle
    /\ TimeIdle
    /\ StrategyIdle /\ FactoryIdle /\ EntityIdle /\ ConnectionIdle
    /\ cache = EmptyDict
    /\ access_order = <<>>
    /\ max_size = GlobalCacheSize
    /\ cop = NoOp
    /\ last_use = EmptyDict
    /\ nops = 0
    /\ config = [stack |-> "logging", max_retries |-> 0]
    /\ last = NoCall
    /\ prev = NoCall
    /\ log_level \in {"DEBUG", "INFO"}

CallLogged(sig, k, b) ==
    /\ config.stack = "logging"
    /\ LET call == Bind(sig, k)
           r == logging_decorator(call, Invoke(call, b))
       IN  last' = [call |-> call, params |-> sig, outcome |-> r.outcome,
                    invocations |-> r.invocations, hit |-> FALSE,
                    log |-> Written(r.log, log_level), cached_before |-> FALSE,
                    attempts |-> <<b>>]
    /\ UNCHANGED <<cacheVars, cacheObs, config, prev, log_level, builderVars, raceVars, timeVars, patternVars>>

LogNext ==
    \E sig \in Signatures, b \in Behaviours :
        \E k \in 0..Len(sig) : CallLogged(sig, k, b)

LogSpec == LogInit /\ [][LogNext]_vars

\* token occurs in one of the written records
IsWritten(log, token) ==
    \E i \in 1..Len(log) : \E j \in 1..Len(log[i].text) : log[i].text[j] = token

\* C8 (as stated): logging_decorator never writes to the log the value of an
\* argument whose name contains 'password' or 'secret' (in any case), whether
\* it is passed by keyword or positionally.
C8_SensitiveValuesNeverLogged ==
    (config.stack = "logging" /\ Called) =>
        \A i \in 1..Len(last.params) :
            IsSensitive(last.params[i]) => ~IsWritten(last.log, ArgValue[last.params[i]])

----------------------------------------------------------------------------
(* SQLQueryBuilder.build and BuilderSpec *)

BuildError(message) == [ok |-> FALSE, text |-> <<>>, error |-> <<message>>]

\* not self._select_fields
MissingSelect_never(b) == FALSE

MissingSelect(b) == b.select_fields = <<>>

\* not self._from_table
MissingFrom(b) == b.from_table = <<>>

\* "WHERE " + " AND ".join(self._where_conditions)
WhereClause_or(b) == <<"WHERE ">> \o Join(<<" OR ">>, b.where_conditions)

WhereClause(b) == <<"WHERE ">> \o Join(<<" AND ">>, b.where_conditions)

\* if self._limit_value: an int is true unless it is 0
LimitIsTrue(b) == b.limit_value # <<>> /\ b.limit_value[1] # 0

SQLQueryBuilder_build(b) ==
    IF MissingSelect(b) THEN BuildError("SELECT fields are required")
    ELSE IF MissingFrom(b) THEN BuildError("FROM table is required")
    ELSE LET select_clause == <<"SELECT ">> \o Join(<<", ">>, b.select_fields)
             from_clause == <<"FROM ">> \o b.from_table
             query_parts ==
                 <<select_clause, from_clause>>
                 \o b.joins
                 \o (IF b.where_conditions # <<>> THEN <<WhereClause(b)>> ELSE <<>>)
                 \o (IF b.group_by_fields # <<>>
                     THEN << <<"GROUP BY ">> \o Join(<<", ">>, b.group_by_fields) >>
                     ELSE <<>>)
                 \o (IF b.having_conditions # <<>>
                     THEN << <<"HAVING ">> \o Join(<<" AND ">>, b.having_conditions) >>
                     ELSE <<>>)
                 \o (IF b.order_by_fields # <<>>
                     THEN << <<"ORDER BY ">> \o Join(<<", ">>, b.order_by_fields) >>
                     ELSE <<>>)
                 \o (IF LimitIsTrue(b)
                     THEN << <<"LIMIT ", ToString(b.limit_value[1])>> >>
                     ELSE <<>>)
         IN  [ok |-> TRUE, text |-> Join(<<"\n">>, query_parts), error |-> <<>>]

\* str.upper() of a sort direction
Upper(direction) ==
    CASE direction = "asc" -> "ASC" [] direction = "desc" -> "DESC" [] OTHER -> direction

\* the arguments the model's callers pass
FieldLists == { <<>>, << <<"a">>, <<"b">> >> }
Fields == { <<"c">> }
Tables == { <<>>, <<"t">> }
Conditions == { <<"x>1">> }
EqualsValues == { [is_str |-> TRUE, repr |-> "v"], [is_str |-> FALSE, repr |-> "1"] }
GroupLists == { << <<"g">> >> }
Directions == {"ASC", "desc"}
LimitCounts == {0, 10}

\* the fluent methods, as functions of the builder's fields

\* reset() that keeps the LIMIT
SQLQueryBuilder_reset_keeps_limit(b) == [EmptyBuilder EXCEPT !.limit_value = b.limit_value]

SQLQueryBuilder_reset(b) == EmptyBuilder

SQLQueryBuilder_select(b, fields) == [b EXCEPT !.select_fields = @ \o fields]

SQLQueryBuilder_from_table(b, table) == [b EXCEPT !.from_table = table]

SQLQueryBuilder_inner_join(b, table, on_condition) ==
    [b EXCEPT !.joins = Append(@, <<"INNER JOIN ">> \o table \o <<" ON ">> \o on_condition)]

SQLQueryBuilder_where(b, condition) == [b EXCEPT !.where_conditions = Append(@, condition)]

SQLQueryBuilder_group_by(b, fields) == [b EXCEPT !.group_by_fields = @ \o fields]

SQLQueryBuilder_order_by(b, field, direction) ==
    [b EXCEPT !.order_by_fields = Append(@, field \o <<" ", Upper(direction)>>)]

SQLQueryBuilder_limit(b, count) == [b EXCEPT !.limit_value = <<count>>]

SQLQueryBuilder_select_field(b, field) == [b EXCEPT !.select_fields = Append(@, field)]

SQLQueryBuilder_left_join(b, table, on_condition) ==
    [b EXCEPT !.joins = Append(@, <<"LEFT JOIN ">> \o table \o <<" ON ">> \o on_condition)]

SQLQueryBuilder_right_join(b, table, on_condition) ==
    [b EXCEPT !.joins = Append(@, <<"RIGHT JOIN ">> \o table \o <<" ON ">> \o on_condition)]

SQLQueryBuilder_where_equals(b, field, value) ==
    [b EXCEPT !.where_conditions = Append(@,
        IF value.is_str
        THEN field \o <<" = '", value.repr, "'">>
        ELSE field \o <<" = ", value.repr>>)]

SQLQueryBuilder_having(b, condition) == [b EXCEPT !.having_conditions = Append(@, condition)]

\* a builder method other than build and reset: the fields of the builder
\* change to b, those of the newly constructed builder to f
Mutate(b, f) ==
    /\ ncalls < MaxBuilderCalls
    /\ builder' = b
    /\ fresh' = f
    /\ built' = NoBuild
    /\ preset' = NoPreset
    /\ ncalls' = ncalls + 1
    /\ UNCHANGED <<cacheVars, cacheObs, decorVars, raceVars, timeVars, patternVars>>

reset ==
    /\ ncalls < MaxBuilderCalls
    /\ builder' = SQLQueryBuilder_reset(builder)
    /\ fresh' = EmptyBuilder
    /\ was_reset' = (was_reset \/ builder # EmptyBuilder)
    /\ built' = NoBuild
    /\ added' = NothingAdded
    /\ preset' = NoPreset
    /\ ncalls' = ncalls + 1
    /\ UNCHANGED <<cacheVars, cacheObs, decorVars, raceVars, timeVars, patternVars>>

select(fields) ==
    /\ Mutate(SQLQueryBuilder_select(builder, fields),
              SQLQueryBuilder_select(fresh, fields))
    /\ added' = [added EXCEPT !.select = @ \/ fields # <<>>]
    /\ UNCHANGED was_reset

select_field(field) ==
    /\ Mutate(SQLQueryBuilder_select_field(builder, field),
              SQLQueryBuilder_select_field(fresh, field))
    /\ added' = [added EXCEPT !.select = TRUE]
    /\ UNCHANGED was_reset

from_table(table) ==
    /\ Mutate(SQLQueryBuilder_from_table(builder, table),
              SQLQueryBuilder_from_table(fresh, table))
    /\ added' = [added EXCEPT !.table = table # <<>>]
    /\ UNCHANGED was_reset

inner_join(table, on_condition) ==
    /\ Mutate(SQLQueryBuilder_inner_join(builder, table, on_condition),
              SQLQueryBuilder_inner_join(fresh, table, on_condition))
    /\ UNCHANGED <<added, was_reset>>

left_join(table, on_condition) ==
    /\ Mutate(SQLQueryBuilder_left_join(builder, table, on_condition),
              SQLQueryBuilder_left_join(fresh, table, on_condition))
    /\ UNCHANGED <<added, was_reset>>

right_join(table, on_condition) ==
    /\ Mutate(SQLQueryBuilder_right_join(builder, table, on_condition),
              SQLQueryBuilder_right_join(fresh, table, on_condition))
    /\ UNCHANGED <<added, was_reset>>

where(condition) ==
    /\ Mutate(SQLQueryBuilder_where(builder, condition),
              SQLQueryBuilder_where(fresh, condition))
    /\ UNCHANGED <<added, was_reset>>

where_equals(field, value) ==
    /\ Mutate(SQLQueryBuilder_where_equals(builder, field, value),
              SQLQueryBuilder_where_equals(fresh, field, value))
    /\ UNCHANGED <<added, was_reset>>

group_by(fields) ==
    /\ Mutate(SQLQueryBuilder_group_by(builder, fields),
              SQLQueryBuilder_group_by(fresh, fields))
    /\ UNCHANGED <<added, was_reset>>

having(condition) ==
    /\ Mutate(SQLQueryBuilder_having(builder, condition),
              SQLQueryBuilder_having(fresh, condition))
    /\ UNCHANGED <<added, was_reset>>

order_by(field, direction) ==
    /\ Mutate(SQLQueryBuilder_order_by(builder, field, direction),
              SQLQueryBuilder_order_by(fresh, field, direction))
    /\ UNCHANGED <<added, was_reset>>

limit(count) ==
    /\ Mutate(SQLQueryBuilder_limit(builder, count),
              SQLQueryBuilder_limit(fresh, count))
    /\ UNCHANGED <<added, was_reset>>

\* build() that drops the select fields and the table when it fails
build_clearing ==
    /\ ncalls < MaxBuilderCalls
    /\ built' = SQLQueryBuilder_build(builder)
    /\ builder' = IF built'.ok THEN builder
                  ELSE [builder EXCEPT !.select_fields = <<>>, !.from_table = <<>>]
    /\ preset' = NoPreset
    /\ ncalls' = ncalls + 1
    /\ UNCHANGED <<added, fresh, was_reset, cacheVars, cacheObs, decorVars, raceVars, timeVars, patternVars>>

build ==
    /\ ncalls < MaxBuilderCalls
    /\ built' = SQLQueryBuilder_build(builder)
    /\ preset' = NoPreset
    /\ ncalls' = ncalls + 1
    /\ UNCHANGED <<builder, added, fresh, was_reset, cacheVars, cacheObs, decorVars, raceVars, timeVars, patternVars>>

\* QueryCache, the wrapped operation and the builder while none is in use
UtilsIdle ==
    /\ BuilderIdle
    /\ RaceIdle
    /\ TimeIdle
    /\ cache = EmptyDict
    /\ access_order = <<>>
    /\ max_size = GlobalCacheSize
    /\ cop = NoOp
    /\ last_use = EmptyDict
    /\ nops = 0
    /\ config = NoConfig
    /\ last = NoCall
    /\ prev = NoCall
    /\ log_level = "INFO"

BuilderInit ==
    /\ UtilsIdle
    /\ StrategyIdle /\ FactoryIdle /\ EntityIdle /\ ConnectionIdle

BuilderNext ==
    \/ reset
    \/ \E fields \in FieldLists : select(fields)
    \/ \E field \in Fields : select_field(field)
    \/ \E table \in Tables : from_table(table)
    \/ inner_join(<<"p">>, <<"s.pid = p.id">>)
    \/ left_join(<<"c">>, <<"s.cid = c.id">>)
    \/ right_join(<<"e">>, <<"s.eid = e.id">>)
    \/ \E condition \in Conditions : where(condition)
    \/ \E value \in EqualsValues : where_equals(<<"f">>, value)
    \/ \E fields \in GroupLists : group_by(fields)
    \/ having(<<"SUM(q) > 5">>)
    \/ \E direction \in Directions : order_by(<<"a">>, direction)
    \/ \E count \in LimitCounts : limit(count)
    \/ build

BuilderSpec == BuilderInit /\ [][BuilderNext]_vars

----------------------------------------------------------------------------
(* QueryBuilderDirector and DirectorSpec: the presets on a shared builder *)

\* the chain of build_sales_summary_by_category without its reset()
sales_summary_by_category_without_reset(b) ==
    SQLQueryBuilder_order_by(
      SQLQueryBuilder_group_by(
        SQLQueryBuilder_inner_join(
          SQLQueryBuilder_inner_join(
            SQLQueryBuilder_from_table(
              SQLQueryBuilder_select(b,
                << <<"c.category_name">>, <<"COUNT(s.sale_id) as total_sales">>,
                   <<"SUM(s.total_price) as total_revenue">>,
                   <<"AVG(s.total_price) as avg_sale_amount">> >>),
              <<"sales s">>),
            <<"products p">>, <<"s.product_id = p.product_id">>),
          <<"categories c">>, <<"p.category_id = c.category_id">>),
        << <<"c.category_name">> >>),
      <<"total_revenue">>, "DESC")

\* the builder's fields when the chain of the preset reaches build()
sales_summary_by_category(b) ==
    sales_summary_by_category_without_reset(SQLQueryBuilder_reset(b))

top_customers(b, n) ==
    SQLQueryBuilder_limit(
      SQLQueryBuilder_order_by(
        SQLQueryBuilder_group_by(
          SQLQueryBuilder_inner_join(
            SQLQueryBuilder_from_table(
              SQLQueryBuilder_select(SQLQueryBuilder_reset(b),
                << <<"CONCAT(c.first_name, ' ', c.last_name) as customer_name">>,
                   <<"COUNT(s.sale_id) as total_purchases">>,
                   <<"SUM(s.total_price) as total_spent">> >>),
              <<"sales s">>),
            <<"customers c">>, <<"s.customer_id = c.customer_id">>),
          << <<"c.customer_id">>, <<"c.first_name">>, <<"c.last_name">> >>),
        <<"total_spent">>, "DESC"),
      n)

monthly_sales_trend(b, year) ==
    SQLQueryBuilder_order_by(
      SQLQueryBuilder_group_by(
        SQLQueryBuilder_where(
          SQLQueryBuilder_from_table(
            SQLQueryBuilder_select(SQLQueryBuilder_reset(b),
              << <<"MONTH(sale_date) as month">>, <<"MONTHNAME(sale_date) as month_name">>,
                 <<"COUNT(sale_id) as total_sales">>, <<"SUM(total_price) as total_revenue">> >>),
            <<"sales">>),
          <<"YEAR(sale_date) = ", ToString(year)>>),
        << <<"MONTH(sale_date)">>, <<"MONTHNAME(sale_date)">> >>),
      <<"month">>, "ASC")

\* the arguments the model's callers pass to the presets
PresetLimits == {0, 10}
PresetYears == {2023, 2024}

\* a preset call: the chain runs on the shared builder and ends with build()
Preset(name, arg, b, f) ==
    /\ ncalls < MaxBuilderCalls
    /\ builder' = b
    /\ built' = SQLQueryBuilder_build(b)
    /\ fresh' = f
    /\ was_reset' = (was_reset \/ builder # EmptyBuilder)
    /\ added' = [select |-> TRUE, table |-> TRUE]
    /\ preset' = [name |-> name, arg |-> arg, before |-> builder]
    /\ ncalls' = ncalls + 1
    /\ UNCHANGED <<cacheVars, cacheObs, decorVars, raceVars, timeVars, patternVars>>

build_sales_summary_by_category ==
    Preset("build_sales_summary_by_category", 0,
           sales_summary_by_category(builder), sales_summary_by_category(fresh))

build_top_customers(n) ==
    Preset("build_top_customers", n, top_customers(builder, n), top_customers(fresh, n))

build_monthly_sales_trend(year) ==
    Preset("build_monthly_sales_trend", year,
           monthly_sales_trend(builder, year), monthly_sales_trend(fresh, year))

DirectorNext ==
    \/ build_sales_summary_by_category
    \/ \E n \in PresetLimits : build_top_customers(n)
    \/ \E year \in PresetYears : build_monthly_sales_trend(year)
    \/ \E fields \in FieldLists : select(fields)
    \/ \E table \in Tables : from_table(table)
    \/ left_join(<<"c">>, <<"s.cid = c.id">>)
    \/ \E condition \in Conditions : where(condition)
    \/ having(<<"SUM(q) > 5">>)
    \/ \E count \in LimitCounts : limit(count)
    \/ build

DirectorSpec == BuilderInit /\ [][DirectorNext]_vars

----------------------------------------------------------------------------
(* Claims about SQLQueryBuilder.build, checked under BuilderSpec *)

Built == built # NoBuild

\* text.split("\n")
RECURSIVE SplitLines(_, _)
SplitLines(text, line) ==
    IF text = <<>> THEN <<line>>
    ELSE IF Head(text) = "\n" THEN <<line>> \o SplitLines(Tail(text), <<>>)
    ELSE SplitLines(Tail(text), Append(line, Head(text)))

\* the place of a line's clause in SELECT, FROM, JOIN, WHERE, GROUP BY,
\* HAVING, ORDER BY, LIMIT
ClauseRank(line) ==
    CASE line[1] = "SELECT " -> 1
      [] line[1] = "FROM " -> 2
      [] line[1] \in {"INNER JOIN ", "LEFT JOIN ", "RIGHT JOIN "} -> 3
      [] line[1] = "WHERE " -> 4
      [] line[1] = "GROUP BY " -> 5
      [] line[1] = "HAVING " -> 6
      [] line[1] = "ORDER BY " -> 7
      [] line[1] = "LIMIT " -> 8

LinesOfRank(lines, r) == SelectSeq(lines, LAMBDA ln : ClauseRank(ln) = r)

\* the clause of rank r is the one line keyword + sep.join(items) when there
\* are items, and is left out when there are none
ListClause(lines, r, keyword, sep, items) ==
    LinesOfRank(lines, r) =
        IF items = <<>> THEN <<>> ELSE << <<keyword>> \o Join(sep, items) >>

\* C9: build() emits SELECT, FROM, the JOINs in insertion order, WHERE (the
\* predicates joined by AND in insertion order), GROUP BY, HAVING, ORDER BY,
\* LIMIT in this order, one per line, whatever the order of the builder calls,
\* and leaves out every clause whose list is empty or whose value is absent.
C9_ClausesInFixedOrder ==
    (Built /\ built.ok) =>
        LET lines == SplitLines(built.text, <<>>)
        IN  /\ \A i, j \in 1..Len(lines) :
                  i < j => /\ ClauseRank(lines[i]) <= ClauseRank(lines[j])
                           /\ ClauseRank(lines[i]) = ClauseRank(lines[j])
                                 => ClauseRank(lines[i]) = 3
            /\ lines[1] = <<"SELECT ">> \o Join(<<", ">>, builder.select_fields)
            /\ lines[2] = <<"FROM ">> \o builder.from_table
            /\ LinesOfRank(lines, 3) = builder.joins
            /\ ListClause(lines, 4, "WHERE ", <<" AND ">>, builder.where_conditions)
            /\ ListClause(lines, 5, "GROUP BY ", <<", ">>, builder.group_by_fields)
            /\ ListClause(lines, 6, "HAVING ", <<" AND ">>, builder.having_conditions)
            /\ ListClause(lines, 7, "ORDER BY ", <<", ">>, builder.order_by_fields)
            /\ builder.limit_value = <<>> => LinesOfRank(lines, 8) = <<>>
            /\ \A i \in 1..Len(lines) :
                  ClauseRank(lines[i]) = 8 =>
                      lines[i] = <<"LIMIT ", ToString(builder.limit_value[1])>>

\* a query built with two different joins and a predicate
C9_Witness ==
    /\ Built /\ built.ok
    /\ Len(builder.joins) = 2
    /\ builder.joins[1] # builder.joins[2]
    /\ Len(builder.where_conditions) = 1
    /\ Len(SplitLines(built.text, <<>>)) = 5

C12_ResetRestoresConstruction ==
    /\ builder = fresh
    /\ Built => built = SQLQueryBuilder_build(fresh)
    /\ (fresh = EmptyBuilder) =>
          /\ builder.select_fields = <<>> /\ builder.from_table = <<>>
          /\ builder.joins = <<>> /\ builder.where_conditions = <<>>
          /\ builder.group_by_fields = <<>> /\ builder.having_conditions = <<>>
          /\ builder.order_by_fields = <<>> /\ builder.limit_value = <<>>

\* a query built from the calls made after reset() cleared a builder that
\* held clauses
C12_Witness ==
    /\ was_reset
    /\ Built /\ built.ok
    /\ builder.limit_value = <<>>

----------------------------------------------------------------------------
(* Claims about QueryBuilderDirector, checked under DirectorSpec *)

\* what the preset returns when the director's builder is newly constructed
OnNewBuilder(p) ==
    SQLQueryBuilder_build(
        CASE p.name = "build_sales_summary_by_category" -> sales_summary_by_category(EmptyBuilder)
          [] p.name = "build_top_customers" -> top_customers(EmptyBuilder, p.arg)
          [] p.name = "build_monthly_sales_trend" -> monthly_sales_trend(EmptyBuilder, p.arg))

\* C13: each preset returns, for given arguments, the same string whatever
\* clauses the shared builder held before the call, also after other presets
\* ran on it any number of times in any order.
C13_PresetsIgnoreAccumulatedState ==
    preset # NoPreset =>
        /\ built.ok
        /\ built = OnNewBuilder(preset)

\* the sales summary was built on a builder that held a predicate, a HAVING
\* condition and a limit left by earlier calls
C13_Witness ==
    /\ preset # NoPreset
    /\ preset.name = "build_sales_summary_by_category"
    /\ preset.before.where_conditions # <<>>
    /\ preset.before.having_conditions # <<>>
    /\ preset.before.limit_value = <<10>>
    /\ built.ok

----------------------------------------------------------------------------
(* analysis_strategies.py: the four strategies and SalesAnalysisContext.     *)
(* A DataFrame is its set of columns and its rows; a float is NaN or the     *)
(* ratio num/den, so that quantiles compare exactly.                         *)

Columns == {"customer_id", "product_id", "total_price", "quantity", "sale_date"}

\* the rows the model's tables are made of
RowValues ==
    { [customer_id |-> 1, product_id |-> 1, total_price |-> 10, quantity |-> 1, sale_date |-> 1],
      [customer_id |-> 1, product_id |-> 2, total_price |-> 30, quantity |-> 5, sale_date |-> 2],
      [customer_id |-> 2, product_id |-> 1, total_price |-> 30, quantity |-> 10, sale_date |-> 3] }

DataFrames ==
    [columns : SUBSET Columns,
     rows : UNION { [1..k -> RowValues] : k \in 0..MaxRows }]

NaN == [nan |-> TRUE]
Ratio(num, den) == [nan |-> FALSE, num |-> num, den |-> den]

\* data[column]
Series(d, column) == [i \in 1..Len(d.rows) |-> d.rows[i][column]]

\* the number of values in place of their sum
Series_sum_as_count(v) == Len(v)

RECURSIVE Series_sum(_)
Series_sum(v) == IF v = <<>> THEN 0 ELSE Head(v) + Series_sum(Tail(v))

\* Series.min(), .max(), .mean(): NaN for an empty Series
Series_min(v) ==
    IF v = <<>> THEN NaN
    ELSE Ratio(CHOOSE x \in {v[i] : i \in 1..Len(v)} : \A j \in 1..Len(v) : x <= v[j], 1)

Series_max(v) ==
    IF v = <<>> THEN NaN
    ELSE Ratio(CHOOSE x \in {v[i] : i \in 1..Len(v)} : \A j \in 1..Len(v) : x >= v[j], 1)

Series_mean(v) == IF v = <<>> THEN NaN ELSE Ratio(Series_sum(v), Len(v))

\* Series.median() and Series.std(): only whether the value is NaN is
\* modelled; the sample standard deviation of fewer than two values is NaN
Series_median(v) == IF v = <<>> THEN NaN ELSE [nan |-> FALSE]
Series_std(v) == IF Len(v) < 2 THEN NaN ELSE [nan |-> FALSE]

\* Series.quantile(num/den), by linear interpolation between the two
\* closest ranks
Series_quantile(v, num, den) ==
    IF v = <<>> THEN NaN
    ELSE LET sorted == SortSeq(v, LAMBDA a, b : a < b)
             lo == (num * (Len(v) - 1)) \div den
             rem == (num * (Len(v) - 1)) % den
         IN  IF rem = 0 THEN Ratio(den * sorted[lo + 1], den)
             ELSE Ratio(den * sorted[lo + 1] + rem * (sorted[lo + 2] - sorted[lo + 1]), den)

\* x compared with the float q: -1, 0 or 1, and 2 when q is NaN (every
\* comparison with NaN is false)
Compare(x, q) ==
    IF q.nan THEN 2
    ELSE IF x * q.den < q.num THEN -1
    ELSE IF x * q.den = q.num THEN 0
    ELSE 1

Raised(exc, message, aggregated) ==
    [exc |-> exc, message |-> message, aggregated |-> aggregated]

Returned(results) == [exc |-> "none", results |-> results]

Strategies == {"revenue", "quantity", "customer_behavior", "product_performance"}

get_analysis_name(strategy) ==
    CASE strategy = "revenue" -> "Revenue Analysis Strategy"
      [] strategy = "quantity" -> "Quantity Analysis Strategy"
      [] strategy = "customer_behavior" -> "Customer Behavior Analysis Strategy"
      [] strategy = "product_performance" -> "Product Performance Analysis Strategy"

\* the required columns in the reverse of the declared order
RequiredColumns_reversed(strategy) ==
    CASE strategy = "revenue" -> <<"total_price">>
      [] strategy = "quantity" -> <<"quantity">>
      [] strategy = "customer_behavior" -> <<"total_price", "customer_id">>
      [] strategy = "product_performance" -> <<"quantity", "total_price", "product_id">>

RequiredColumns(strategy) ==
    CASE strategy = "revenue" -> <<"total_price">>
      [] strategy = "quantity" -> <<"quantity">>
      [] strategy = "customer_behavior" -> <<"customer_id", "total_price">>
      [] strategy = "product_performance" -> <<"product_id", "total_price", "quantity">>

\* the ValueError of the first required column that data.columns lacks
MissingColumnError(strategy, d) ==
    LET required == RequiredColumns(strategy)
        missing == SelectSeq(required, LAMBDA col : col \notin d.columns)
        purpose == CASE strategy = "revenue" -> "revenue analysis"
                     [] strategy = "quantity" -> "quantity analysis"
                     [] strategy = "customer_behavior" -> "customer behavior analysis"
                     [] strategy = "product_performance" -> "product performance analysis"
    IN  Raised("ValueError",
               <<"Data must contain '", missing[1], "' column for ", purpose>>, FALSE)

HasRequiredColumns(strategy, d) ==
    \A i \in 1..Len(RequiredColumns(strategy)) : RequiredColumns(strategy)[i] \in d.columns

\* data.groupby(key): the groups in ascending order of the key, each with the
\* values of its rows in the column
GroupBy(d, key, column) ==
    LET keys == {d.rows[i][key] : i \in 1..Len(d.rows)}
        order == CHOOSE s \in [1..Cardinality(keys) -> keys] :
                     \A i, j \in 1..Cardinality(keys) : i < j => s[i] < s[j]
    IN  [g \in 1..Cardinality(keys) |->
            Series([rows |-> SelectSeq(d.rows, LAMBDA row : row[key] = order[g])], column)]

RevenueAnalysisStrategy_analyze(d) ==
    IF ~HasRequiredColumns("revenue", d) THEN MissingColumnError("revenue", d)
    ELSE LET price == Series(d, "total_price")
             results ==
                 [strategy |-> get_analysis_name("revenue"),
                  total_revenue |-> Ratio(Series_sum(price), 1),
                  average_sale_amount |-> Series_mean(price),
                  median_sale_amount |-> Series_median(price),
                  min_sale_amount |-> Series_min(price),
                  max_sale_amount |-> Series_max(price),
                  revenue_std |-> Series_std(price),
                  total_transactions |-> Len(d.rows)]
         IN  Returned(IF Len(d.rows) > 0
                      THEN results @@ [revenue_quartiles |->
                               [q1 |-> Series_quantile(price, 1, 4),
                                q2 |-> Series_quantile(price, 2, 4),
                                q3 |-> Series_quantile(price, 3, 4)]]
                      ELSE results)

\* int(x) of a float that is NaN raises ValueError before the results dict
\* is complete
QuantityAnalysisStrategy_analyze(d) ==
    IF ~HasRequiredColumns("quantity", d) THEN MissingColumnError("quantity", d)
    ELSE LET quantity == Series(d, "quantity")
         IN  IF Series_min(quantity).nan \/ Series_max(quantity).nan
             THEN Raised("ValueError", <<"cannot convert float NaN to integer">>, TRUE)
             ELSE LET results ==
                          [strategy |-> get_analysis_name("quantity"),
                           total_items_sold |-> Series_sum(quantity),
                           average_quantity_per_sale |-> Series_mean(quantity),
                           median_quantity_per_sale |-> Series_median(quantity),
                           min_quantity |-> Series_min(quantity).num,
                           max_quantity |-> Series_max(quantity).num,
                           quantity_std |-> Series_std(quantity),
                           total_transactions |-> Len(d.rows)]
                  IN  Returned(IF Len(d.rows) > 0
                               THEN results @@ [quantity_distribution |->
                                        [single_item_sales |->
                                             Len(SelectSeq(quantity, LAMBDA q : q = 1)),
                                         bulk_sales_5_plus |->
                                             Len(SelectSeq(quantity, LAMBDA q : q >= 5)),
                                         bulk_sales_10_plus |->
                                             Len(SelectSeq(quantity, LAMBDA q : q >= 10))]]
                               ELSE results)

\* the agg() dict names 'sale_date' also when data has no such column, and
\* DataFrameGroupBy.agg raises KeyError for a column that does not exist
CustomerBehaviorAnalysisStrategy_analyze(d) ==
    IF ~HasRequiredColumns("customer_behavior", d)
    THEN MissingColumnError("customer_behavior", d)
    ELSE IF "sale_date" \notin d.columns
    THEN Raised("KeyError", <<"\"Column(s) ['sale_date'] do not exist\"">>, TRUE)
    ELSE LET groups == GroupBy(d, "customer_id", "total_price")
             customer_stats ==
                 [g \in 1..Len(groups) |->
                     [total_spent |-> Series_sum(groups[g]), purchase_count |-> Len(groups[g])]]
             total_spent == [g \in 1..Len(groups) |-> customer_stats[g].total_spent]
             purchase_count == [g \in 1..Len(groups) |-> customer_stats[g].purchase_count]
             high_value_threshold == Series_quantile(total_spent, 4, 5)
             high_frequency_threshold == Series_quantile(purchase_count, 4, 5)
             Segment(value, frequency) ==
                 Len(SelectSeq(customer_stats, LAMBDA c :
                     /\ Compare(c.total_spent, high_value_threshold) \in value
                     /\ Compare(c.purchase_count, high_frequency_threshold) \in frequency))
             results ==
                 [strategy |-> get_analysis_name("customer_behavior"),
                  unique_customers |-> Len(customer_stats),
                  avg_customer_lifetime_value |-> Series_mean(total_spent),
                  avg_purchases_per_customer |-> Series_mean(purchase_count),
                  top_customers_count |->
                      Len(SelectSeq(total_spent,
                                    LAMBDA x : Compare(x, high_value_threshold) = 1)),
                  one_time_customers |-> Len(SelectSeq(purchase_count, LAMBDA n : n = 1)),
                  repeat_customers |-> Len(SelectSeq(purchase_count, LAMBDA n : n > 1))]
         IN  Returned(IF Len(customer_stats) > 0
                      THEN results @@ [customer_segments |->
                               [high_value_high_frequency |-> Segment({0, 1}, {0, 1}),
                                high_value_low_frequency |-> Segment({0, 1}, {-1}),
                                low_value_high_frequency |-> Segment({-1}, {0, 1}),
                                low_value_low_frequency |-> Segment({-1}, {-1})]]
                      ELSE results)

ProductPerformanceAnalysisStrategy_analyze(d) ==
    IF ~HasRequiredColumns("product_performance", d)
    THEN MissingColumnError("product_performance", d)
    ELSE LET revenue == GroupBy(d, "product_id", "total_price")
             sold == GroupBy(d, "product_id", "quantity")
             total_revenue == [g \in 1..Len(revenue) |-> Series_sum(revenue[g])]
             total_quantity_sold == [g \in 1..Len(sold) |-> Series_sum(sold[g])]
             Tier(q, outcomes) ==
                 Len(SelectSeq(total_revenue, LAMBDA x :
                     Compare(x, Series_quantile(total_revenue, q, 5)) \in outcomes))
             results ==
                 [strategy |-> get_analysis_name("product_performance"),
                  unique_products_sold |-> Len(total_revenue),
                  avg_revenue_per_product |-> Series_mean(total_revenue),
                  avg_quantity_per_product |-> Series_mean(total_quantity_sold),
                  top_performing_products_count |-> Tier(4, {1}),
                  underperforming_products_count |-> Tier(1, {-1})]
         IN  Returned(IF Len(total_revenue) > 0
                      THEN results @@ [product_performance_tiers |->
                               [top_tier |-> Tier(4, {0, 1}),
                                mid_tier |->
                                    Len(SelectSeq(total_revenue, LAMBDA x :
                                        /\ Compare(x, Series_quantile(total_revenue, 2, 5)) \in {0, 1}
                                        /\ Compare(x, Series_quantile(total_revenue, 4, 5)) = -1)),
                                low_tier |-> Tier(2, {-1})]]
                      ELSE results)

analyze(strategy, d) ==
    CASE strategy = "revenue" -> RevenueAnalysisStrategy_analyze(d)
      [] strategy = "quantity" -> QuantityAnalysisStrategy_analyze(d)
      [] strategy = "customer_behavior" -> CustomerBehaviorAnalysisStrategy_analyze(d)
      [] strategy = "product_performance" -> ProductPerformanceAnalysisStrategy_analyze(d)

\* except Exception: the exceptions of analyze are all subclasses of Exception
IsCaught_ValueError_only(exc) == exc = "ValueError"

IsCaught(exc) == exc \in {"ValueError", "KeyError"}

\* the loop of compare_strategies from the i-th strategy on
RECURSIVE compare_loop(_, _, _, _)
compare_loop(strategies, d, i, comparison_results) ==
    IF i > Len(strategies)
    THEN [exc |-> "none", results |-> comparison_results, ran |-> Len(strategies)]
    ELSE LET outcome == analyze(strategies[i], d)
             name == get_analysis_name(strategies[i])
         IN  IF outcome.exc = "none"
             THEN compare_loop(strategies, d, i + 1,
                               (name :> outcome.results) @@ comparison_results)
             ELSE IF IsCaught(outcome.exc)
             THEN compare_loop(strategies, d, i + 1,
                               (name :> [error |-> outcome.message]) @@ comparison_results)
             ELSE [exc |-> outcome.exc, results |-> comparison_results, ran |-> i]

compare_strategies(strategies, d) == compare_loop(strategies, d, 1, <<>>)

----------------------------------------------------------------------------
(* StrategySpec: the strategies applied to one table *)

StrategyLists == UNION { [1..k -> Strategies] : k \in 0..MaxStrategies }

StrategyInit ==
    /\ UtilsIdle /\ FactoryIdle /\ EntityIdle /\ ConnectionIdle
    /\ data \in DataFrames
    /\ scall = NoCall

Analyze(strategy) ==
    /\ scall' = [call |-> "analyze", strategy |-> strategy,
                 outcome |-> analyze(strategy, data)]
    /\ UNCHANGED <<data, utilVars, factoryVars, entityVars, connectionVars>>

CompareStrategies(strategies) ==
    /\ scall' = [call |-> "compare_strategies", strategies |-> strategies,
                 outcome |-> compare_strategies(strategies, data)]
    /\ UNCHANGED <<data, utilVars, factoryVars, entityVars, connectionVars>>

StrategyNext ==
    \/ \E strategy \in Strategies : Analyze(strategy)
    \/ \E strategies \in StrategyLists : CompareStrategies(strategies)

StrategySpec == StrategyInit /\ [][StrategyNext]_vars

----------------------------------------------------------------------------
(* Claims about the analysis strategies, checked under StrategySpec *)

\* the columns each strategy requires, in the declared order
DeclaredColumns(strategy) ==
    CASE strategy = "revenue" -> <<"total_price">>
      [] strategy = "quantity" -> <<"quantity">>
      [] strategy = "customer_behavior" -> <<"customer_id", "total_price">>
      [] strategy = "product_performance" -> <<"product_id", "total_price", "quantity">>

MissingDeclared(strategy) ==
    SelectSeq(DeclaredColumns(strategy), LAMBDA col : col \notin data.columns)

\* C14: analyze() on a table that lacks a required column raises a ValueError
\* that names the first missing column of the declared order, before any
\* aggregation is computed.
C14_MissingColumnRaisesValueError ==
    (scall.call = "analyze" /\ MissingDeclared(scall.strategy) # <<>>) =>
        /\ scall.outcome.exc = "ValueError"
        /\ ~scall.outcome.aggregated
        /\ scall.outcome.message[1] = "Data must contain '"
        /\ scall.outcome.message[2] = MissingDeclared(scall.strategy)[1]
        /\ scall.outcome.message[3] = "' column for "

\* product performance analysis of a table with rows that lacks two of the
\* three required columns
C14_Witness ==
    /\ scall.call = "analyze"
    /\ scall.strategy = "product_performance"
    /\ MissingDeclared(scall.strategy) = <<"total_price", "quantity">>
    /\ Len(data.rows) = 2
    /\ scall.outcome.exc = "ValueError"

\* the entry compare_strategies must hold for a strategy
ExpectedEntry(strategy) ==
    LET outcome == analyze(strategy, data)
    IN  IF outcome.exc = "none" THEN outcome.results ELSE [error |-> outcome.message]

\* C15: compare_strategies runs every strategy of the list on the same data
\* and returns a mapping with an entry under each strategy's name, the
\* metrics or {'error': message}; no failure aborts the comparison, stops the
\* later strategies or reaches the caller.
C15_CompareStrategiesCollectsErrors ==
    scall.call = "compare_strategies" =>
        /\ scall.outcome.exc = "none"
        /\ scall.outcome.ran = Len(scall.strategies)
        /\ DOMAIN scall.outcome.results =
               {get_analysis_name(scall.strategies[i]) : i \in 1..Len(scall.strategies)}
        /\ \A i \in 1..Len(scall.strategies) :
               scall.outcome.results[get_analysis_name(scall.strategies[i])] =
                   ExpectedEntry(scall.strategies[i])

\* a comparison whose first strategy failed and whose second one succeeded
C15_Witness ==
    /\ scall.call = "compare_strategies"
    /\ Len(scall.strategies) = 2
    /\ analyze(scall.strategies[1], data).exc # "none"
    /\ analyze(scall.strategies[2], data).exc = "none"
    /\ "error" \in DOMAIN scall.outcome.results[get_analysis_name(scall.strategies[1])]
    /\ "strategy" \in DOMAIN scall.outcome.results[get_analysis_name(scall.strategies[2])]

CountField(strategy) ==
    CASE strategy \in {"revenue", "quantity"} -> "total_transactions"
      [] strategy = "customer_behavior" -> "unique_customers"
      [] strategy = "product_performance" -> "unique_products_sold"

DistributionKey(strategy) ==
    CASE strategy = "revenue" -> "revenue_quartiles"
      [] strategy = "quantity" -> "quantity_distribution"
      [] strategy = "customer_behavior" -> "customer_segments"
      [] strategy = "product_performance" -> "product_performance_tiers"

\* C16 (as stated): on every table that has the strategy's required columns,
\* a table with zero rows included, analyze() returns a metrics record with
\* the key 'strategy' and the count field, and the distribution sub-key is
\* present exactly when the count is greater than 0.
C16_CompleteMetricsRecord ==
    (scall.call = "analyze" /\ MissingDeclared(scall.strategy) = <<>>) =>
        /\ scall.outcome.exc = "none"
        /\ "strategy" \in DOMAIN scall.outcome.results
        /\ CountField(scall.strategy) \in DOMAIN scall.outcome.results
        /\ DistributionKey(scall.strategy) \in DOMAIN scall.outcome.results
               <=> scall.outcome.results[CountField(scall.strategy)] > 0

----------------------------------------------------------------------------
(* models/*.py: the entity types.  Field values are strings; the storage    *)
(* column of a field has the field's name.                                  *)

\* the fields of each entity type, each with its display column
EntityFields(type) ==
    CASE type = "category" ->
           << <<"category_id", "CategoryID">>, <<"category_name", "CategoryName">> >>
      [] type = "city" ->
           << <<"city_id", "CityID">>, <<"city_name", "CityName">>,
              <<"zip_code", "Zipcode">>, <<"country_id", "CountryID">> >>
      [] type = "country" ->
           << <<"country_id", "CountryID">>, <<"country_name", "CountryName">>,
              <<"country_code", "CountryCode">> >>
      [] type = "customer" ->
           << <<"customer_id", "CustomerID">>, <<"first_name", "FirstName">>,
              <<"middle_initial", "MiddleInitial">>, <<"last_name", "LastName">>,
              <<"city_id", "CityID">>, <<"address", "Address">> >>
      [] type = "employee" ->
           << <<"employee_id", "EmployeeID">>, <<"first_name", "FirstName">>,
              <<"middle_initial", "MiddleInitial">>, <<"last_name", "LastName">>,
              <<"birth_date", "BirthDate">>, <<"gender", "Gender">>,
              <<"city_id", "CityID">>, <<"hire_date", "HireDate">> >>
      [] type = "product" ->
           << <<"product_id", "ProductID">>, <<"product_name", "ProductName">>,
              <<"price", "Price">>, <<"category_id", "CategoryID">>,
              <<"class_type", "Class">>, <<"modify_date", "ModifyDate">>,
              <<"resistant", "Resistant">>, <<"is_allergic", "IsAllergic">>,
              <<"vitality_days", "VitalityDays">> >>
      [] type = "sale" ->
           << <<"sale_id", "SalesID">>, <<"sales_person_id", "SalesPersonID">>,
              <<"customer_id", "CustomerID">>, <<"product_id", "ProductID">>,
              <<"quantity", "Quantity">>, <<"discount", "Discount">>,
              <<"total_price", "TotalPrice">>, <<"sale_date", "SalesDate">>,
              <<"transaction_number", "TransactionNumber">> >>

EntityTypes == {"category", "city", "country", "customer", "employee", "product", "sale"}

FieldNames(type) == {EntityFields(type)[i][1] : i \in 1..Len(EntityFields(type))}

\* cls(field=data.get(field), ...): dict.get gives None for a missing key
from_dict(type, d) ==
    [type |-> type,
     fields |-> [f \in FieldNames(type) |-> IF f \in DOMAIN d THEN d[f] ELSE None]]

----------------------------------------------------------------------------
(* model_factory.py: the factories and ModelFactoryRegistry *)

\* factory_class(): ModelFactory has abstract methods and cannot be instantiated
IsAbstract(factory_class) == factory_class = "ModelFactory"

\* factory.create_model(data) of a concrete factory
Factory_create_model(factory_class, d) ==
    CASE factory_class = "CategoryFactory" -> from_dict("category", d)
      [] factory_class = "ProductFactory" -> from_dict("product", d)
      [] factory_class = "SaleFactory" -> from_dict("sale", d)

ModelFactoryRegistry_create_model(fs, model_type, d) ==
    IF model_type \notin DOMAIN fs
    THEN [exc |-> "ValueError", message |-> <<"Unsupported model type: ", model_type>>,
          factory_class |-> None]
    ELSE IF IsAbstract(fs[model_type])
    THEN [exc |-> "TypeError",
          message |-> <<"Can't instantiate abstract class ", fs[model_type]>>,
          factory_class |-> fs[model_type]]
    ELSE [exc |-> "none", entity |-> Factory_create_model(fs[model_type], d),
          factory_class |-> fs[model_type]]

\* register_factory that leaves a model type that is already registered alone
ModelFactoryRegistry_register_factory_keeps(fs, model_type, factory_class) ==
    fs @@ (model_type :> factory_class)

ModelFactoryRegistry_register_factory(fs, model_type, factory_class) ==
    (model_type :> factory_class) @@ fs

----------------------------------------------------------------------------
(* FactorySpec: callers of the shared registry *)

\* the model types and data the model's callers pass
ModelTypes == EntityTypes \cup {"invoice", "unknown"}
RegisteredTypes == {"category", "city", "invoice"}
ConcreteFactories == {"CategoryFactory", "ProductFactory", "SaleFactory"}
DataDicts ==
    { [category_id |-> "1", category_name |-> "Electronics"],
      [product_id |-> "1", product_name |-> "Laptop", price |-> "999.99", category_id |-> "1"],
      [sale_id |-> "7", quantity |-> "2"] }

FactoryInit ==
    /\ UtilsIdle /\ StrategyIdle /\ EntityIdle /\ ConnectionIdle
    /\ FactoryIdle

CreateModel(model_type, d) ==
    /\ fcall' = [call |-> "create_model", model_type |-> model_type, data |-> d,
                 outcome |-> ModelFactoryRegistry_create_model(factories, model_type, d)]
    /\ UNCHANGED <<factories, registrations, utilVars, strategyVars, entityVars,
                   connectionVars>>

RegisterFactory(model_type, factory_class) ==
    /\ Len(registrations) < MaxRegistrations
    /\ factories' =
           ModelFactoryRegistry_register_factory(factories, model_type, factory_class)
    /\ registrations' = Append(registrations, <<model_type, factory_class>>)
    /\ fcall' = [call |-> "register_factory", model_type |-> model_type,
                 factory_class |-> factory_class]
    /\ UNCHANGED <<utilVars, strategyVars, entityVars, connectionVars>>

FactoryNext ==
    \/ \E model_type \in ModelTypes, d \in DataDicts : CreateModel(model_type, d)
    \/ \E model_type \in RegisteredTypes, factory_class \in ConcreteFactories :
           RegisterFactory(model_type, factory_class)

FactorySpec == FactoryInit /\ [][FactoryNext]_vars

----------------------------------------------------------------------------
(* Claims about ModelFactoryRegistry, checked under FactorySpec *)

\* C17 (as stated): create_model(key, data) fails with ValueError 'Unsupported
\* model type' exactly when key is not registered; for every key of the
\* registry as shipped (category, product, sale, city, country, customer,
\* employee) it returns an entity of that type, field-equal to the one that
\* type's from_dict(data) builds.
C17_CreateModelDispatches ==
    fcall.call = "create_model" =>
        /\ (fcall.outcome.exc = "ValueError") <=> (fcall.model_type \notin DOMAIN factories)
        /\ (registrations = <<>> /\ fcall.model_type \in EntityTypes) =>
               /\ fcall.outcome.exc = "none"
               /\ fcall.outcome.entity = from_dict(fcall.model_type, fcall.data)

\* the registrations of a model type, oldest first
RegistrationsOf(model_type) == SelectSeq(registrations, LAMBDA r : r[1] = model_type)

\* C18: after register_factory(t, F) every later create_model(t, data)
\* dispatches to a new instance of F, the last registration of t winning; the
\* other registrations are unchanged and a key that was never registered
\* still fails with the unsupported-type error.
C18_RegisterFactoryFrame ==
    /\ \A t \in ModelTypes :
          IF RegistrationsOf(t) # <<>>
          THEN /\ t \in DOMAIN factories
               /\ factories[t] = RegistrationsOf(t)[Len(RegistrationsOf(t))][2]
          ELSE IF t \in EntityTypes
          THEN t \in DOMAIN factories /\ factories[t] = DefaultFactories[t]
          ELSE t \notin DOMAIN factories
    /\ fcall.call = "create_model" =>
          IF RegistrationsOf(fcall.model_type) # <<>>
          THEN LET F == RegistrationsOf(fcall.model_type)[Len(RegistrationsOf(fcall.model_type))][2]
               IN  /\ fcall.outcome.exc = "none"
                   /\ fcall.outcome.factory_class = F
                   /\ fcall.outcome.entity = Factory_create_model(F, fcall.data)
          ELSE IF fcall.model_type \in EntityTypes
          THEN fcall.outcome.factory_class = DefaultFactories[fcall.model_type]
          ELSE /\ fcall.outcome.exc = "ValueError"
               /\ fcall.outcome.message = <<"Unsupported model type: ", fcall.model_type>>

\* 'category' was registered twice with different factories and the second
\* one created the model
C18_Witness ==
    /\ fcall.call = "create_model"
    /\ fcall.model_type = "category"
    /\ RegistrationsOf("category") = << <<"category", "SaleFactory">>, <<"category", "ProductFactory">> >>
    /\ fcall.outcome.exc = "none"
    /\ fcall.outcome.entity.type = "product"

----------------------------------------------------------------------------
(* models/*.py: from_dataframe.  A DataFrame with the default index is its  *)
(* number of rows and the values of its first row, column by column.        *)

\* df.empty: no rows or no columns
DataFrame_empty(df) == df.rows = 0 \/ DOMAIN df.row = {}

\* df.get(key, default)[0]: the first row's value of the column, or the
\* first element of the default list
DataFrame_get(df, key, default) == IF key \in DOMAIN df.row THEN df.row[key] ELSE default

\* from_dataframe that looks for the storage column before the display column
from_dataframe_storage_first(type, df) ==
    IF DataFrame_empty(df) THEN from_dict(type, <<>>)
    ELSE [type |-> type,
          fields |-> [f \in FieldNames(type) |->
              LET i == CHOOSE i \in 1..Len(EntityFields(type)) : EntityFields(type)[i][1] = f
              IN  DataFrame_get(df, f, DataFrame_get(df, EntityFields(type)[i][2], None))]]

\* df.get(display, df.get(storage, [None]))[0] for every field
from_dataframe(type, df) ==
    IF DataFrame_empty(df) THEN from_dict(type, <<>>)
    ELSE [type |-> type,
          fields |-> [f \in FieldNames(type) |->
              LET i == CHOOSE i \in 1..Len(EntityFields(type)) : EntityFields(type)[i][1] = f
              IN  DataFrame_get(df, EntityFields(type)[i][2], DataFrame_get(df, f, None))]]

----------------------------------------------------------------------------
(* EntitySpec: from_dataframe applied to the rows of each entity type *)

\* the columns a field is carried under
Conventions == {{}, {"storage"}, {"display"}, {"storage", "display"}}

\* a row in which one field is carried under the conventions of focus and
\* the other fields under those of others; every cell holds its column's name
RowOf(type, focus, of_focus, of_others) ==
    LET carried(i) == IF i = focus THEN of_focus ELSE of_others
        columns == UNION {
            (IF "storage" \in carried(i) THEN {EntityFields(type)[i][1]} ELSE {}) \cup
            (IF "display" \in carried(i) THEN {EntityFields(type)[i][2]} ELSE {})
            : i \in 1..Len(EntityFields(type)) }
    IN  [c \in columns |-> c]

EntityInit ==
    /\ UtilsIdle /\ StrategyIdle /\ FactoryIdle /\ ConnectionIdle
    /\ EntityIdle

FromDataFrame(type, df) ==
    /\ ecall' = [call |-> "from_dataframe", type |-> type, df |-> df,
                 entity |-> from_dataframe(type, df)]
    /\ UNCHANGED <<utilVars, strategyVars, factoryVars, connectionVars>>

EntityNext ==
    \E type \in EntityTypes, rows \in {0, 1} :
        \E focus \in 1..Len(EntityFields(type)), of_focus \in Conventions,
           of_others \in Conventions :
            FromDataFrame(type, [rows |-> rows, row |-> RowOf(type, focus, of_focus, of_others)])

EntitySpec == EntityInit /\ [][EntityNext]_vars

----------------------------------------------------------------------------
(* Claims about from_dataframe, checked under EntitySpec *)

DisplayColumn(type, f) ==
    EntityFields(type)[CHOOSE i \in 1..Len(EntityFields(type)) : EntityFields(type)[i][1] = f][2]

\* C19 (as stated): from_dataframe takes each field from the storage column
\* (e.g. category_id) when the row carries it, from the display column (e.g.
\* CategoryID) only when the storage column is absent, and the field is None
\* when the row carries neither.
C19_StorageColumnFirst ==
    (ecall.call = "from_dataframe" /\ ~DataFrame_empty(ecall.df)) =>
        \A f \in FieldNames(ecall.type) :
            ecall.entity.fields[f] =
                IF f \in DOMAIN ecall.df.row THEN ecall.df.row[f]
                ELSE IF DisplayColumn(ecall.type, f) \in DOMAIN ecall.df.row
                THEN ecall.df.row[DisplayColumn(ecall.type, f)]
                ELSE None

\* C19 (amended): from_dataframe takes each field from the display column
\* (e.g. CategoryID) when the row carries it, from the storage column (e.g.
\* category_id) only when the display column is absent, and the field is None
\* when the row carries neither or the DataFrame is empty.
C19_DisplayColumnFirst ==
    ecall.call = "from_dataframe" =>
        \A f \in FieldNames(ecall.type) :
            ecall.entity.fields[f] =
                IF DataFrame_empty(ecall.df) THEN None
                ELSE IF DisplayColumn(ecall.type, f) \in DOMAIN ecall.df.row
                THEN ecall.df.row[DisplayColumn(ecall.type, f)]
                ELSE IF f \in DOMAIN ecall.df.row THEN ecall.df.row[f]
                ELSE None

\* a sale row that carries sale_id under both conventions and the other
\* fields under the storage convention only
C19_Witness ==
    /\ ecall.call = "from_dataframe"
    /\ ecall.type = "sale"
    /\ ecall.df.rows = 1
    /\ {"sale_id", "SalesID", "quantity"} \subseteq DOMAIN ecall.df.row
    /\ "Quantity" \notin DOMAIN ecall.df.row
    /\ ecall.entity.fields["sale_id"] = "SalesID"
    /\ ecall.entity.fields["quantity"] = "quantity"

----------------------------------------------------------------------------
(* database/connection.py: DatabaseConnection and ConnectionSpec.  An      *)
(* object is known by its number in objects; its record holds the attributes *)
(* set on the object itself, "unset" standing for an attribute only the      *)
(* class has.                                                                *)

\* object.__new__(cls): an object without attributes of its own
NewObject == [engine |-> "unset", Session |-> "unset", instance |-> "unset", disposed |-> FALSE]

\* self._engine: the object's attribute, else the class attribute (None)
EngineOf(object) == IF object.engine = "unset" THEN None ELSE object.engine

\* a test that is true at every call
NeedsInstance_always(instance) == TRUE

\* cls._instance is None
NeedsInstance(instance) == instance = <<>>

\* the environment at a call: which of the variables are set
Environments == [DB_USER : BOOLEAN, DB_PASSWORD : BOOLEAN, DB_NAME : BOOLEAN]

\* _initialize(): raises ValueError when DB_USER, DB_PASSWORD or DB_NAME is
\* missing, else sets the engine and the session factory
DatabaseConnection_initialize(object, env) ==
    IF ~(env.DB_USER /\ env.DB_PASSWORD /\ env.DB_NAME)
    THEN [exc |-> "ValueError",
          message |-> <<"Missing required database configuration in .env file">>,
          object |-> object]
    ELSE [exc |-> "none",
          object |-> [object EXCEPT !.engine = "Engine", !.Session = "sessionmaker"]]

ConnectionInit ==
    /\ UtilsIdle /\ StrategyIdle /\ FactoryIdle /\ EntityIdle
    /\ ConnectionIdle

\* DatabaseConnection(): __new__, with the environment at the call
DatabaseConnection(env) ==
    /\ nconn < MaxConnectionCalls
    /\ nconn' = nconn + 1
    /\ IF NeedsInstance(class_instance)
       THEN LET id == Len(objects) + 1
                init == DatabaseConnection_initialize(NewObject, env)
            IN  /\ class_instance' = <<id>>
                /\ objects' = Append(objects, init.object)
                /\ inits' = inits + 1
                /\ dcall' = [call |-> "DatabaseConnection", env |-> env,
                             initialized |-> TRUE, exc |-> init.exc,
                             ret |-> IF init.exc = "none" THEN <<id>> ELSE <<>>]
       ELSE /\ dcall' = [call |-> "DatabaseConnection", env |-> env,
                         initialized |-> FALSE, exc |-> "none", ret |-> class_instance]
            /\ UNCHANGED <<class_instance, objects, inits>>
    /\ UNCHANGED <<closed, utilVars, strategyVars, factoryVars, entityVars>>

\* close() on an object: self._instance = None sets an attribute of the object
close(id) ==
    /\ nconn < MaxConnectionCalls
    /\ nconn' = nconn + 1
    /\ objects' = IF EngineOf(objects[id]) # None
                  THEN [objects EXCEPT ![id].disposed = TRUE, ![id].instance = None]
                  ELSE objects
    /\ closed' = TRUE
    /\ dcall' = [call |-> "close", object |-> id]
    /\ UNCHANGED <<class_instance, inits, utilVars, strategyVars, factoryVars, entityVars>>

\* get_session() on an object
get_session(id) ==
    /\ nconn < MaxConnectionCalls
    /\ nconn' = nconn + 1
    /\ dcall' = IF objects[id].Session \in {"unset", None}
                THEN [call |-> "get_session", object |-> id, exc |-> "RuntimeError",
                      message |-> <<"Database connection not initialized">>]
                ELSE [call |-> "get_session", object |-> id, exc |-> "none"]
    /\ UNCHANGED <<class_instance, objects, inits, closed, utilVars, strategyVars,
                   factoryVars, entityVars>>

ConnectionNext ==
    \/ \E env \in Environments : DatabaseConnection(env)
    \/ \E id \in 1..Len(objects) : close(id)
    \/ \E id \in 1..Len(objects) : get_session(id)

ConnectionSpec == ConnectionInit /\ [][ConnectionNext]_vars

----------------------------------------------------------------------------
(* Claims about DatabaseConnection, checked under ConnectionSpec *)

\* C20: as long as close() has not been called, every DatabaseConnection()
\* call that returns gives the same instance, and the initialization runs
\* exactly once, on the first call.
C20_SingleInstanceInitializedOnce ==
    (~closed /\ nconn > 0) =>
        /\ inits = 1
        /\ Len(objects) = 1
        /\ class_instance = <<1>>
        /\ dcall.call = "DatabaseConnection" =>
               /\ dcall.initialized <=> nconn = 1
               /\ dcall.exc = "none" => dcall.ret = <<1>>

\* the third call returned the instance the first call created and initialized
C20_Witness ==
    /\ ~closed
    /\ nconn = 3
    /\ dcall.call = "DatabaseConnection"
    /\ dcall.ret = <<1>>
    /\ ~dcall.initialized
    /\ EngineOf(objects[1]) = "Engine"
    /\ inits = 1

\* C21: after close() on the current instance, the next DatabaseConnection()
\* call creates and initializes a new instance, which is not the closed one.
C21_CloseResetsSingleton ==
    [][(/\ dcall.call = "close"
        /\ class_instance = <<dcall.object>>
        /\ objects[dcall.object].disposed
        /\ dcall'.call = "DatabaseConnection")
       => (/\ dcall'.initialized
           /\ class_instance' # <<dcall.object>>
           /\ dcall'.ret # <<dcall.object>>)]_vars

\* C29: every object DatabaseConnection() returns has its engine and its
\* session factory set; a failed _initialize leaves no instance behind that a
\* later call could return.
C29_ReturnedObjectsInitialized ==
    (dcall.call = "DatabaseConnection" /\ dcall.ret # <<>>) =>
        /\ EngineOf(objects[dcall.ret[1]]) # None
        /\ objects[dcall.ret[1]].Session \notin {"unset", None}

----------------------------------------------------------------------------
(* QuantitySpec: QuantityAnalysisStrategy applied to one table of integer   *)
(* quantities                                                               *)

QuantityValues == {1, 2, 3, 5, 9, 10}

QuantityTables ==
    [columns : {{"quantity"}},
     rows : UNION { [1..k -> [quantity : QuantityValues]] : k \in 0..MaxQuantityRows }]

QuantityInit ==
    /\ UtilsIdle /\ FactoryIdle /\ EntityIdle /\ ConnectionIdle
    /\ data \in QuantityTables
    /\ scall = NoCall

QuantityNext == Analyze("quantity")

QuantitySpec == QuantityInit /\ [][QuantityNext]_vars

----------------------------------------------------------------------------
(* Claims about QuantityAnalysisStrategy, checked under QuantitySpec *)

\* the sum of the first n quantities of the table
RECURSIVE TotalOfFirst(_, _)
TotalOfFirst(rows, n) ==
    IF n = 0 THEN 0 ELSE rows[n].quantity + TotalOfFirst(rows, n - 1)

\* the number of rows whose quantity is one of qs
RowsWithQuantity(rows, qs) == Cardinality({i \in 1..Len(rows) : rows[i].quantity \in qs})

\* C22: on a non-empty table of integer quantities the quantity analysis
\* returns total_items_sold = the sum of the column, total_transactions = the
\* row count, single_item_sales = the rows with quantity 1, bulk_sales_5_plus
\* = the rows with quantity >= 5 and bulk_sales_10_plus = the rows with
\* quantity >= 10, so bulk_sales_10_plus <= bulk_sales_5_plus <=
\* total_transactions; for [1, 5, 3, 10, 2] these are 21, 5, 1, 2, 1.
C22_QuantityCounts ==
    (/\ scall.call = "analyze"
     /\ scall.strategy = "quantity"
     /\ "quantity" \in data.columns
     /\ Len(data.rows) > 0) =>
        /\ scall.outcome.exc = "none"
        /\ LET results == scall.outcome.results
               distribution == results.quantity_distribution
           IN  /\ results.total_items_sold = TotalOfFirst(data.rows, Len(data.rows))
               /\ results.total_transactions = Len(data.rows)
               /\ distribution.single_item_sales = RowsWithQuantity(data.rows, {1})
               /\ distribution.bulk_sales_5_plus =
                      RowsWithQuantity(data.rows, {q \in QuantityValues : q >= 5})
               /\ distribution.bulk_sales_10_plus =
                      RowsWithQuantity(data.rows, {q \in QuantityValues : q >= 10})
               /\ distribution.bulk_sales_10_plus <= distribution.bulk_sales_5_plus
               /\ distribution.bulk_sales_5_plus <= results.total_transactions
               /\ Series(data, "quantity") = <<1, 5, 3, 10, 2>> =>
                      /\ results.total_items_sold = 21
                      /\ results.total_transactions = 5
                      /\ distribution.single_item_sales = 1
                      /\ distribution.bulk_sales_5_plus = 2
                      /\ distribution.bulk_sales_10_plus = 1

\* the quantities [1, 5, 3, 10, 2] were analysed: 21 items in 5 transactions,
\* 4.2 on average
C22_Witness ==
    /\ scall.call = "analyze"
    /\ scall.strategy = "quantity"
    /\ Series(data, "quantity") = <<1, 5, 3, 10, 2>>
    /\ scall.outcome.exc = "none"
    /\ scall.outcome.results.total_items_sold = 21
    /\ scall.outcome.results.average_quantity_per_sale = Ratio(21, 5)
    /\ scall.outcome.results.quantity_distribution.bulk_sales_5_plus = 2

\* C23: after limit(n) for a non-negative integer n, with no later reset,
\* build() renders 'LIMIT n' as the last line, with the n of the most recent
\* limit call; when no limit was set since construction or the last reset, no
\* LIMIT line is rendered.
C23_LimitRendered ==
    (Built /\ built.ok) =>
        LET lines == SplitLines(built.text, <<>>)
        IN  /\ builder.limit_value # <<>> =>
                   lines[Len(lines)] = <<"LIMIT ", ToString(builder.limit_value[1])>>
            /\ builder.limit_value = <<>> => LinesOfRank(lines, 8) = <<>>

----------------------------------------------------------------------------
(* RaceSpec: two threads call get and set on the shared QueryCache.  A     *)
(* call is the sequence of its statements' steps on the dict and the list: *)
(* the membership test, the size check, list.remove, list.append,          *)
(* list.pop(0), del and the store write are one step each, and the threads *)
(* interleave between any two of them.                                     *)

RaceValues == {"10"}

Busy(t) == threads[t].pc # "idle"

\* thread t goes on with the frame f
Step(t, f) ==
    /\ threads' = [threads EXCEPT ![t] = f]
    /\ raced' = (raced \/ \E u \in ThreadIds \ {t} : Busy(u))
    /\ UNCHANGED <<max_size, cop, last_use, decorVars, builderVars, timeVars, patternVars>>

\* the call returns ret
ThreadReturns(t, ret) == Step(t, [threads[t] EXCEPT !.pc = "idle", !.ret = ret])

\* the call ends with the exception exc
ThreadRaises(t, exc) == Step(t, [threads[t] EXCEPT !.pc = "idle", !.exc = exc])

Goto(t, pc) == Step(t, [threads[t] EXCEPT !.pc = pc])

\* get(key), entered: if key in self._cache
get_test(t, key) ==
    /\ ~Busy(t)
    /\ nops < MaxRaceCalls
    /\ nops' = nops + 1
    /\ Step(t, [IdleFrame EXCEPT !.key = key,
                                 !.pc = IF key \in DOMAIN cache THEN "get_remove" ELSE "idle"])
    /\ UNCHANGED <<cache, access_order>>

\* self._access_order.remove(key)
get_remove(t) ==
    /\ threads[t].pc = "get_remove"
    /\ IF InList(access_order, threads[t].key)
       THEN /\ access_order' = ListRemove(access_order, threads[t].key)
            /\ Goto(t, "get_append")
       ELSE /\ ThreadRaises(t, "ValueError")
            /\ UNCHANGED access_order
    /\ UNCHANGED <<cache, nops>>

\* self._access_order.append(key)
get_append(t) ==
    /\ threads[t].pc = "get_append"
    /\ access_order' = Append(access_order, threads[t].key)
    /\ Goto(t, "get_return")
    /\ UNCHANGED <<cache, nops>>

\* return self._cache[key]
get_return(t) ==
    /\ threads[t].pc = "get_return"
    /\ IF threads[t].key \in DOMAIN cache
       THEN ThreadReturns(t, cache[threads[t].key])
       ELSE ThreadRaises(t, "KeyError")
    /\ UNCHANGED <<cache, access_order, nops>>

\* set(key, value), entered: if key in self._cache
set_test(t, key, value) ==
    /\ ~Busy(t)
    /\ nops < MaxRaceCalls
    /\ nops' = nops + 1
    /\ Step(t, [IdleFrame EXCEPT !.key = key, !.value = value,
                                 !.pc = IF key \in DOMAIN cache
                                        THEN "set_update" ELSE "set_size"])
    /\ UNCHANGED <<cache, access_order>>

\* update existing: self._cache[key] = value
set_update(t) ==
    /\ threads[t].pc = "set_update"
    /\ cache' = DictPut(cache, threads[t].key, threads[t].value)
    /\ Goto(t, "set_remove")
    /\ UNCHANGED <<access_order, nops>>

\* self._access_order.remove(key)
set_remove(t) ==
    /\ threads[t].pc = "set_remove"
    /\ IF InList(access_order, threads[t].key)
       THEN /\ access_order' = ListRemove(access_order, threads[t].key)
            /\ Goto(t, "set_append")
       ELSE /\ ThreadRaises(t, "ValueError")
            /\ UNCHANGED access_order
    /\ UNCHANGED <<cache, nops>>

\* add new: if len(self._cache) >= self._max_size
set_size(t) ==
    /\ threads[t].pc = "set_size"
    /\ Goto(t, IF CacheFull(cache, max_size) THEN "set_pop" ELSE "set_write")
    /\ UNCHANGED <<cache, access_order, nops>>

\* oldest_key = self._access_order.pop(0)
set_pop(t) ==
    /\ threads[t].pc = "set_pop"
    /\ IF access_order # <<>>
       THEN /\ access_order' = Tail(access_order)
            /\ Step(t, [threads[t] EXCEPT !.pc = "set_del",
                                          !.oldest_key = Head(access_order)])
       ELSE /\ ThreadRaises(t, "IndexError")
            /\ UNCHANGED access_order
    /\ UNCHANGED <<cache, nops>>

\* del self._cache[oldest_key]
set_del(t) ==
    /\ threads[t].pc = "set_del"
    /\ IF threads[t].oldest_key \in DOMAIN cache
       THEN /\ cache' = DictDel(cache, threads[t].oldest_key)
            /\ Goto(t, "set_write")
       ELSE /\ ThreadRaises(t, "KeyError")
            /\ UNCHANGED cache
    /\ UNCHANGED <<access_order, nops>>

\* self._cache[key] = value
set_write(t) ==
    /\ threads[t].pc = "set_write"
    /\ cache' = DictPut(cache, threads[t].key, threads[t].value)
    /\ Goto(t, "set_append")
    /\ UNCHANGED <<access_order, nops>>

\* a set that returns without appending the key to the list
set_append_skipped(t) ==
    /\ threads[t].pc = "set_append"
    /\ ThreadReturns(t, None)
    /\ UNCHANGED <<cache, access_order, nops>>

\* self._access_order.append(key), the last statement of both branches
set_append(t) ==
    /\ threads[t].pc = "set_append"
    /\ access_order' = Append(access_order, threads[t].key)
    /\ ThreadReturns(t, None)
    /\ UNCHANGED <<cache, nops>>

RaceInit ==
    /\ BuilderIdle /\ RaceIdle /\ TimeIdle
    /\ StrategyIdle /\ FactoryIdle /\ EntityIdle /\ ConnectionIdle
    /\ config = NoConfig
    /\ last = NoCall
    /\ prev = NoCall
    /\ log_level = "INFO"
    /\ cache = EmptyDict
    /\ access_order = <<>>
    /\ max_size \in 1..MaxCacheSize
    /\ cop = NoOp
    /\ last_use = EmptyDict
    /\ nops = 0

RaceNext ==
    \E t \in ThreadIds :
        \/ \E key \in Keys : get_test(t, key)
        \/ get_remove(t)
        \/ get_append(t)
        \/ get_return(t)
        \/ \E key \in Keys, value \in RaceValues : set_test(t, key, value)
        \/ set_update(t)
        \/ set_remove(t)
        \/ set_size(t)
        \/ set_pop(t)
        \/ set_del(t)
        \/ set_write(t)
        \/ set_append(t)

RaceSpec == RaceInit /\ [][RaceNext]_vars

----------------------------------------------------------------------------
(* Claims about the shared QueryCache under threads, checked under RaceSpec *)

\* no thread is inside a call
Quiescent == \A t \in ThreadIds : ~Busy(t)

TooManyEntries == Cardinality(DOMAIN cache) > max_size

ListDiffersFromStore ==
    \/ {access_order[i] : i \in 1..Len(access_order)} # DOMAIN cache
    \/ Len(access_order) # Cardinality(DOMAIN cache)

RemovalFailed == \E t \in ThreadIds : threads[t].exc \in {"ValueError", "KeyError", "IndexError"}

\* C24: the QueryCache is unsynchronized.  When two threads interleave the
\* steps of get and set, the cache can be left with more than max_size
\* entries, with a key in the store but not in the recency list or the
\* reverse, or a call fails because the key it removes is already gone; and
\* this happens only when the calls interleaved: calls that run one after
\* the other leave the bookkeeping intact.
C24_OnlyInterleavingBreaksBookkeeping ==
    (Quiescent /\ (TooManyEntries \/ ListDiffersFromStore \/ RemovalFailed)) => raced

\* all calls have returned or failed, and the cache holds more entries than
\* max_size, its list no longer matches its store, and one call failed
C24_Witness ==
    /\ Quiescent
    /\ raced
    /\ TooManyEntries
    /\ ListDiffersFromStore
    /\ RemovalFailed

----------------------------------------------------------------------------
(* Further claims about the caching wrapper, checked under DecorSpec *)

\* C27: a wrapped operation whose result is None is never served from the
\* cache: the stored None is taken for a miss, so every call with the same
\* arguments invokes the operation again and stores None again.
C27_NoneNeverServedFromCache ==
    (/\ config.stack \in {"caching", "database_operation"}
     /\ Called
     /\ OpValue(last.call) = None) =>
        /\ ~last.hit
        /\ last.invocations >= 1
        /\ config.stack = "caching" => last.invocations = 1
        /\ LastAttemptMade = Success =>
               /\ last.outcome = Return(None)
               /\ CacheKey(last.call) \in DOMAIN cache
               /\ cache[CacheKey(last.call)] = None

\* the operation that returns None was invoked again by a call whose key was
\* already stored by the call before it
C27_Witness ==
    /\ config.stack = "caching"
    /\ Called
    /\ prev # NoCall
    /\ OpValue(last.call) = None
    /\ prev.call = last.call
    /\ prev.outcome = Return(None)
    /\ last.cached_before
    /\ last.invocations = 1
    /\ cache[CacheKey(last.call)] = None

----------------------------------------------------------------------------
(* NamesakeSpec: two different operations that have the same __name__,     *)
(* each wrapped by caching_decorator, called one after the other.  Both     *)
(* wrappers use the module-level _query_cache.                             *)

\* what the second operation returns: x + 1 where the first returns x * 2
NamesakeValue(call) ==
    IF call.func = "fetch_optional" THEN None
    ELSE LET x == IF call.args # <<>> THEN call.args[1] ELSE call.kwargs[1][2]
         IN  IF x = "5" THEN "6" ELSE "11"

\* func(*args, **kwargs) of the second operation
InvokeNamesake(call, b) ==
    [Invoke(call, b) EXCEPT
        !.outcome = IF b = Success THEN Return(NamesakeValue(call)) ELSE Raise(b)]

\* what is kept of the call before the last: Summary, and which operation
NamesakeSummary(l) ==
    IF l = NoCall THEN NoCall ELSE Summary(l) @@ [operation |-> l.operation]

NamesakeInit ==
    /\ DecorInit
    /\ config = [stack |-> "caching", max_retries |-> 0]

\* a call of the first operation through its wrapper
CallOriginal(call, script) ==
    /\ LET r == caching_decorator(call, cache, access_order, max_size,
                                  Invoke(call, script[1]))
       IN  /\ last' = Record(call, r) @@ [operation |-> "original"]
           /\ cache' = r.cache
           /\ access_order' = r.order
    /\ prev' = NamesakeSummary(last)
    /\ UNCHANGED <<max_size, cacheObs, config, log_level, builderVars, raceVars, timeVars, patternVars>>

\* a call of the second operation through its wrapper
CallNamesake(call, script) ==
    /\ LET r == caching_decorator(call, cache, access_order, max_size,
                                  InvokeNamesake(call, script[1]))
       IN  /\ last' = Record(call, r) @@ [operation |-> "namesake"]
           /\ cache' = r.cache
           /\ access_order' = r.order
    /\ prev' = NamesakeSummary(last)
    /\ UNCHANGED <<max_size, cacheObs, config, log_level, builderVars, raceVars, timeVars, patternVars>>

NamesakeNext ==
    \/ \E call \in Calls, script \in Scripts(0) : CallOriginal(call, script)
    \/ \E call \in Calls, script \in Scripts(0) : CallNamesake(call, script)

NamesakeSpec == NamesakeInit /\ [][NamesakeNext]_vars

----------------------------------------------------------------------------
(* Claims about operations sharing the cache, checked under NamesakeSpec *)

\* C28: all wrapped operations share one cache keyed by the function name and
\* the stringified arguments only: when one operation was called with some
\* arguments and returned a value, a call of another operation of the same
\* __name__ with the same arguments returns the first one's result and the
\* second operation is not invoked.
C28_NamesakesShareEntries ==
    (/\ Called /\ prev # NoCall
     /\ prev.operation # last.operation
     /\ prev.call = last.call
     /\ prev.outcome.kind = "return"
     /\ prev.outcome.value # None) =>
        /\ last.hit
        /\ last.invocations = 0
        /\ last.outcome = prev.outcome

\* the second operation was called after the first had computed 5 * 2: it
\* returned 10, which it never computes
C28_Witness ==
    /\ Called /\ prev # NoCall
    /\ prev.operation = "original"
    /\ prev.invocations = 1
    /\ last.operation = "namesake"
    /\ prev.call = last.call
    /\ last.outcome = Return("10")
    /\ NamesakeValue(last.call) = "6"
    /\ last.invocations = 0

----------------------------------------------------------------------------
(* TtlSpec: one operation wrapped with a cache_ttl, called while time      *)
(* passes; the operation succeeds whenever it is invoked, and clear() is   *)
(* called at most once.  cache_ttl is a parameter of caching_decorator and *)
(* of database_operation that no wrapper reads.                            *)

CacheTtls == {1, 2}

TtlInit ==
    /\ BuilderIdle /\ RaceIdle /\ TimeIdle
    /\ StrategyIdle /\ FactoryIdle /\ EntityIdle /\ ConnectionIdle
    /\ cache = EmptyDict
    /\ access_order = <<>>
    /\ max_size = GlobalCacheSize
    /\ cop = NoOp
    /\ last_use = EmptyDict
    /\ nops = 0
    /\ config \in [stack : {"caching", "database_operation"}, max_retries : {0},
                   cache_ttl : CacheTtls]
    /\ last = NoCall
    /\ prev = NoCall
    /\ log_level = "INFO"

\* a call through the wrapper made with cache_ttl = config.cache_ttl
CallWithTtl(call, script) ==
    LET cache_key == CacheKey(call)
        r == IF config.stack = "caching"
             THEN caching_decorator(call, cache, access_order, max_size,
                                    Invoke(call, script[1]))
             ELSE database_operation(call, config.max_retries, cache, access_order,
                                     max_size, script)
        stored == ~r.hit /\ r.outcome.kind = "return"
    IN  /\ last' = Record(call, r)
                     @@ [age |-> IF cache_key \in DOMAIN cache
                                 THEN clock - stored_at[cache_key] ELSE 0,
                         value_before |-> IF cache_key \in DOMAIN cache
                                          THEN cache[cache_key] ELSE None]
        /\ cache' = r.cache
        /\ access_order' = r.order
        /\ stored_at' = [k \in DOMAIN r.cache |->
                            IF k = cache_key /\ stored THEN clock ELSE stored_at[k]]
        /\ UNCHANGED <<max_size, cacheObs, config, prev, log_level, clock, builderVars,
                       raceVars, patternVars>>

\* a second in which the entries outlive their cache_ttl
Tick_expiring ==
    /\ clock < MaxClock
    /\ clock' = clock + 1
    /\ LET expired == {k \in DOMAIN cache : clock' - stored_at[k] >= config.cache_ttl}
       IN  /\ cache' = [k \in DOMAIN cache \ expired |-> cache[k]]
           /\ access_order' = SelectSeq(access_order, LAMBDA k : k \notin expired)
    /\ UNCHANGED <<max_size, stored_at, cacheObs, decorVars, builderVars, raceVars,
                   patternVars>>

\* a second passes
Tick ==
    /\ clock < MaxClock
    /\ clock' = clock + 1
    /\ UNCHANGED <<cacheVars, stored_at, cacheObs, decorVars, builderVars, raceVars,
                   patternVars>>

TtlNext ==
    \/ \E call \in Calls : CallWithTtl(call, <<Success>>)
    \/ Tick
    \/ cop = NoOp /\ Clear

TtlSpec == TtlInit /\ [][TtlNext]_vars

----------------------------------------------------------------------------
(* Claims about the age of cached entries, checked under TtlSpec *)

\* a call whose key is stored with a value other than None is a hit
HitWhateverAge ==
    (Called /\ last.cached_before /\ last.value_before # None) =>
        /\ last.hit
        /\ last.invocations = 0
        /\ last.outcome = Return(last.value_before)

\* a key leaves the store in a clear(), or in a step that stores a new key in
\* a full cache
LeavesByEvictionOrClear ==
    \A k \in DOMAIN cache :
        k \notin DOMAIN cache' =>
            \/ cop'.op = "clear" /\ nops' = nops + 1
            \/ /\ Cardinality(DOMAIN cache) >= max_size
               /\ \E new \in DOMAIN cache' : new \notin DOMAIN cache

----------------------------------------------------------------------------
(* Further claims about QueryCache, checked under CacheSpec *)

\* the keys of the recency list
ListedKeys == {access_order[i] : i \in 1..Len(access_order)}

\* C26: in single-threaded use, after any sequence of get, set and clear
\* calls on a QueryCache with max_size >= 1, the recency list holds exactly
\* the keys of the store, each once; so the eviction in set never pops from
\* an empty list and never removes a key that is not stored (no call fails).
C26_ListMatchesStore ==
    max_size >= 1 =>
        /\ ListedKeys = DOMAIN cache
        /\ Len(access_order) = Cardinality(DOMAIN cache)
        /\ cop.exc = "none"

\* a set has just evicted the head of the list, after a get had moved
\* another key behind it
C26_Witness ==
    /\ max_size = 2
    /\ cop.op = "set"
    /\ cop.evicted # NoKey
    /\ cop.evicted \notin ListedKeys
    /\ access_order[2] = cop.key
    /\ last_use[access_order[1]] = nops - 1

----------------------------------------------------------------------------
(* Further claims about the analysis strategies, checked under StrategySpec *)

\* C30: the segment counts partition the grouped entities.  On a non-empty
\* table the customer behavior analysis returns four customer_segments
\* counts that sum to unique_customers, and one_time_customers +
\* repeat_customers = unique_customers; the product performance analysis
\* returns top_tier + mid_tier + low_tier = unique_products_sold.
C30_SegmentsPartition ==
    (/\ scall.call = "analyze"
     /\ Len(data.rows) > 0
     /\ HasRequiredColumns(scall.strategy, data)) =>
        /\ scall.strategy = "customer_behavior" =>
               /\ scall.outcome.exc = "none"
               /\ LET results == scall.outcome.results
                      segments == results.customer_segments
                  IN  /\ segments.high_value_high_frequency
                           + segments.high_value_low_frequency
                           + segments.low_value_high_frequency
                           + segments.low_value_low_frequency = results.unique_customers
                      /\ results.one_time_customers + results.repeat_customers
                           = results.unique_customers
        /\ scall.strategy = "product_performance" =>
               /\ scall.outcome.exc = "none"
               /\ LET results == scall.outcome.results
                      tiers == results.product_performance_tiers
                  IN  tiers.top_tier + tiers.mid_tier + tiers.low_tier
                          = results.unique_products_sold

====
